---- MODULE Spec2Model ----
(***************************************************************************)
(* Model of keyway-mcp's command-execution engine (src/tools/inject-run.ts):*)
(* injectRun, its timer / data / close / error handlers, truncateOutput and *)
(* maskSecrets.                                                             *)
(*                                                                          *)
(* Text is modelled as JavaScript holds it: a sequence of UTF-16 code units *)
(* (integers 0..65535).  Buffers are sequences of bytes (0..255).           *)
(***************************************************************************)
EXTENDS Integers, Sequences, FiniteSets, TLC

(***************************************************************************)
(* Bounds of the model.  MAX_OUTPUT_BYTES and SLICE_CHARS stand for the     *)
(* source's 1024 * 1024 (inject-run.ts:14) and 1000 (inject-run.ts:72),     *)
(* scaled down so that TLC can hold the captured text; every other literal  *)
(* of the source keeps its value.                                           *)
(***************************************************************************)
MAX_OUTPUT_BYTES == 48

SLICE_CHARS == 4

MaxDataEvents == 2

\* inject-run.ts:13
DEFAULT_TIMEOUT_MS == 300000

\* inject-run.ts:127
GRACE_MS == 5000

\* '\n\n[Output truncated - exceeded 1MB limit]'
TRUNCATION_MESSAGE ==
  << 10, 10, 91, 79, 117, 116, 112, 117, 116, 32, 116, 114, 117, 110, 99, 97,
     116, 101, 100, 32, 45, 32, 101, 120, 99, 101, 101, 100, 101, 100, 32, 49,
     77, 66, 32, 108, 105, 109, 105, 116, 93 >>

\* '***REDACTED***'
REDACTED == << 42, 42, 42, 82, 69, 68, 65, 67, 84, 69, 68, 42, 42, 42 >>

(***************************************************************************)
(* JavaScript string and Buffer primitives                                  *)
(***************************************************************************)
IsHighSurrogate(u) == u >= 55296 /\ u <= 56319

IsLowSurrogate(u) == u >= 56320 /\ u <= 57343

\* Code point of the surrogate pair (hi, lo).
PairCodePoint(hi, lo) == 65536 + (hi - 55296) * 1024 + (lo - 56320)

\* UTF-8 bytes of one code point below 0x10000 that is not a surrogate.
Utf8Unit(u) ==
  IF u < 128 THEN << u >>
  ELSE IF u < 2048 THEN << 192 + (u \div 64), 128 + (u % 64) >>
  ELSE << 224 + (u \div 4096), 128 + ((u \div 64) % 64), 128 + (u % 64) >>

\* The end of the run of ASCII values (below 128) of s that starts at index i:
\* the index of the next value of 128 or more, or Len(s) + 1.
AsciiRunEnd(s, i) ==
  LET rest == { j \in i..Len(s) : s[j] >= 128 } IN
  IF rest = {} THEN Len(s) + 1 ELSE CHOOSE j \in rest : \A k \in rest : j <= k

\* Buffer.from(s, 'utf8') from index i on: ASCII is copied, a surrogate pair is
\* one 4-byte sequence, a lone surrogate is written as U+FFFD (EF BF BD).
RECURSIVE Utf8From(_, _)
Utf8From(s, i) ==
  IF i > Len(s) THEN << >>
  ELSE IF s[i] < 128
    THEN SubSeq(s, i, AsciiRunEnd(s, i) - 1) \o Utf8From(s, AsciiRunEnd(s, i))
  ELSE IF IsHighSurrogate(s[i]) /\ i < Len(s) /\ IsLowSurrogate(s[i + 1])
    THEN LET cp == PairCodePoint(s[i], s[i + 1]) IN
         << 240 + (cp \div 262144), 128 + ((cp \div 4096) % 64),
            128 + ((cp \div 64) % 64), 128 + (cp % 64) >>
         \o Utf8From(s, i + 2)
  ELSE IF IsHighSurrogate(s[i]) \/ IsLowSurrogate(s[i])
    THEN << 239, 191, 189 >> \o Utf8From(s, i + 1)
  ELSE Utf8Unit(s[i]) \o Utf8From(s, i + 1)

\* Buffer.from(value): the UTF-8 bytes of a string.
BufferFrom(s) == Utf8From(s, 1)

\* Buffer.byteLength(text, 'utf8')
ByteLength(s) == Len(BufferFrom(s))

\* A string is well formed when it holds no lone surrogate: exactly the
\* strings that encode to UTF-8 without loss and decode back.
RECURSIVE WellFormedFrom(_, _)
WellFormedFrom(s, i) ==
  IF i > Len(s) THEN TRUE
  ELSE IF IsHighSurrogate(s[i])
    THEN i < Len(s) /\ IsLowSurrogate(s[i + 1]) /\ WellFormedFrom(s, i + 2)
  ELSE ~IsLowSurrogate(s[i]) /\ WellFormedFrom(s, i + 1)

WellFormed(s) == WellFormedFrom(s, 1)

IsCont(b, i) == i <= Len(b) /\ b[i] >= 128 /\ b[i] <= 191

\* Buffer.prototype.toString('utf8') from index i on: every maximal ill-formed
\* subsequence (a stray byte, a sequence cut short by the end of the buffer)
\* decodes to one U+FFFD (65533).
RECURSIVE DecodeFrom(_, _)
DecodeFrom(b, i) ==
  IF i > Len(b) THEN << >>
  ELSE LET c == b[i] IN
    IF c < 128
      THEN SubSeq(b, i, AsciiRunEnd(b, i) - 1) \o DecodeFrom(b, AsciiRunEnd(b, i))
    ELSE IF c >= 194 /\ c <= 223 THEN
      IF IsCont(b, i + 1)
        THEN << (c - 192) * 64 + (b[i + 1] - 128) >> \o DecodeFrom(b, i + 2)
        ELSE << 65533 >> \o DecodeFrom(b, i + 1)
    ELSE IF c >= 224 /\ c <= 239 THEN
      LET lo == IF c = 224 THEN 160 ELSE 128
          hi == IF c = 237 THEN 159 ELSE 191
          ok1 == i + 1 <= Len(b) /\ b[i + 1] >= lo /\ b[i + 1] <= hi
      IN IF ~ok1 THEN << 65533 >> \o DecodeFrom(b, i + 1)
         ELSE IF ~IsCont(b, i + 2) THEN << 65533 >> \o DecodeFrom(b, i + 2)
         ELSE << (c - 224) * 4096 + (b[i + 1] - 128) * 64 + (b[i + 2] - 128) >>
              \o DecodeFrom(b, i + 3)
    ELSE IF c >= 240 /\ c <= 244 THEN
      LET lo == IF c = 240 THEN 144 ELSE 128
          hi == IF c = 244 THEN 143 ELSE 191
          ok1 == i + 1 <= Len(b) /\ b[i + 1] >= lo /\ b[i + 1] <= hi
      IN IF ~ok1 THEN << 65533 >> \o DecodeFrom(b, i + 1)
         ELSE IF ~IsCont(b, i + 2) THEN << 65533 >> \o DecodeFrom(b, i + 2)
         ELSE IF ~IsCont(b, i + 3) THEN << 65533 >> \o DecodeFrom(b, i + 3)
         ELSE LET cp == (c - 240) * 262144 + (b[i + 1] - 128) * 4096
                        + (b[i + 2] - 128) * 64 + (b[i + 3] - 128)
              IN << 55296 + ((cp - 65536) \div 1024),
                    56320 + ((cp - 65536) % 1024) >>
                 \o DecodeFrom(b, i + 4)
    ELSE << 65533 >> \o DecodeFrom(b, i + 1)

\* data.toString()
BufferToString(b) == DecodeFrom(b, 1)

\* The base64 alphabet: A-Z a-z 0-9 + /
Base64Char(n) ==
  IF n < 26 THEN 65 + n
  ELSE IF n < 52 THEN 97 + (n - 26)
  ELSE IF n < 62 THEN 48 + (n - 52)
  ELSE IF n = 62 THEN 43 ELSE 47

\* buffer.toString('base64') from index i on ('=' is 61).
RECURSIVE Base64From(_, _)
Base64From(b, i) ==
  IF i > Len(b) THEN << >>
  ELSE IF i = Len(b) THEN
    << Base64Char(b[i] \div 4), Base64Char((b[i] % 4) * 16), 61, 61 >>
  ELSE IF i + 1 = Len(b) THEN
    << Base64Char(b[i] \div 4),
       Base64Char((b[i] % 4) * 16 + (b[i + 1] \div 16)),
       Base64Char((b[i + 1] % 16) * 4), 61 >>
  ELSE
    << Base64Char(b[i] \div 4),
       Base64Char((b[i] % 4) * 16 + (b[i + 1] \div 16)),
       Base64Char((b[i + 1] % 16) * 4 + (b[i + 2] \div 64)),
       Base64Char(b[i + 2] % 64) >>
    \o Base64From(b, i + 3)

\* Buffer.from(value).toString('base64')
Base64Encode(s) == Base64From(BufferFrom(s), 1)

HexDigit(n) == IF n < 10 THEN 48 + n ELSE 55 + n

\* Characters encodeURIComponent leaves alone: A-Z a-z 0-9 - _ . ! ~ * ' ( )
UriUnreserved(u) ==
  \/ (u >= 65 /\ u <= 90) \/ (u >= 97 /\ u <= 122) \/ (u >= 48 /\ u <= 57)
  \/ u \in {45, 95, 46, 33, 126, 42, 39, 40, 41}

RECURSIVE PercentBytes(_, _)
PercentBytes(b, i) ==
  IF i > Len(b) THEN << >>
  ELSE << 37, HexDigit(b[i] \div 16), HexDigit(b[i] % 16) >>
       \o PercentBytes(b, i + 1)

\* The value encodeURIComponent throws (URIError) on a lone surrogate.
URIError == << -1 >>

RECURSIVE EncodeURIFrom(_, _)
EncodeURIFrom(s, i) ==
  IF i > Len(s) THEN << >>
  ELSE IF UriUnreserved(s[i]) THEN << s[i] >> \o EncodeURIFrom(s, i + 1)
  ELSE IF IsHighSurrogate(s[i]) THEN
    PercentBytes(BufferFrom(SubSeq(s, i, i + 1)), 1) \o EncodeURIFrom(s, i + 2)
  ELSE PercentBytes(Utf8Unit(s[i]), 1) \o EncodeURIFrom(s, i + 1)

\* encodeURIComponent(value): URIError when the string is not well formed.
EncodeURIComponent(s) ==
  IF WellFormed(s) THEN EncodeURIFrom(s, 1) ELSE URIError

\* Whether pat occurs in text at index i.
MatchAt(text, pat, i) ==
  /\ i + Len(pat) - 1 <= Len(text)
  /\ \A k \in 1..Len(pat) : text[i + k - 1] = pat[k]

\* text.includes(pat)
Includes(text, pat) == \E i \in 1..(Len(text) - Len(pat) + 1) : MatchAt(text, pat, i)

\* text.endsWith(pat)
EndsWith(text, pat) ==
  Len(pat) <= Len(text) /\ MatchAt(text, pat, Len(text) - Len(pat) + 1)

\* text.indexOf(pat, i): the first index from i on where pat occurs, 0 if none.
IndexOf(text, pat, i) ==
  LET at == { j \in i..(Len(text) - Len(pat) + 1) : MatchAt(text, pat, j) } IN
  IF at = {} THEN 0 ELSE CHOOSE j \in at : \A k \in at : j <= k

\* text.replaceAll(pat, rep) for a non-empty pat: the occurrences are taken
\* from the left and do not overlap.
RECURSIVE ReplaceAllFrom(_, _, _, _)
ReplaceAllFrom(text, pat, rep, i) ==
  LET j == IndexOf(text, pat, i) IN
  IF j = 0 THEN SubSeq(text, i, Len(text))
  ELSE SubSeq(text, i, j - 1) \o rep
       \o ReplaceAllFrom(text, pat, rep, j + Len(pat))

ReplaceAll(text, pat, rep) == ReplaceAllFrom(text, pat, rep, 1)

\* text.slice(0, -n)
SliceOff(text, n) == SubSeq(text, 1, Len(text) - n)

(***************************************************************************)
(* maskSecrets and truncateOutput                                           *)
(***************************************************************************)
\* MaskValue with the raw value masked only when it is at least 4 long.
MaskValueLongOnly(masked, value) ==
  IF Len(value) < 4 THEN masked
  ELSE
    LET raw == ReplaceAll(masked, value, REDACTED)
        urlEncoded == EncodeURIComponent(value)
        url == IF urlEncoded # URIError /\ urlEncoded # value
                 THEN ReplaceAll(raw, urlEncoded, REDACTED)
                 ELSE raw
    IN ReplaceAll(url, Base64Encode(value), REDACTED)

\* MaskValue with one try block around both encodings: a URIError skips the
\* base64 step too.
MaskValueOneTry(masked, value) ==
  IF value = << >> THEN masked
  ELSE
    LET raw == ReplaceAll(masked, value, REDACTED) IN
    IF Len(value) >= 4 THEN
      LET urlEncoded == EncodeURIComponent(value) IN
      IF urlEncoded = URIError THEN raw
      ELSE ReplaceAll(IF urlEncoded # value
                        THEN ReplaceAll(raw, urlEncoded, REDACTED)
                        ELSE raw,
                      Base64Encode(value), REDACTED)
    ELSE raw

\* MaskValue without the skip of empty values: replaceAll('', marker) puts a
\* marker before every code unit and at the end.
MaskValueNoEmptySkip(masked, value) ==
  IF value = << >>
    THEN [j \in 1..((Len(masked) + 1) * Len(REDACTED) + Len(masked)) |->
            LET q == (j - 1) \div (Len(REDACTED) + 1)
                r == (j - 1) % (Len(REDACTED) + 1)
            IN IF r < Len(REDACTED) THEN REDACTED[r + 1] ELSE masked[q + 1]]
  ELSE
    LET raw == ReplaceAll(masked, value, REDACTED) IN
    IF Len(value) >= 4 THEN
      LET urlEncoded == EncodeURIComponent(value)
          url == IF urlEncoded # URIError /\ urlEncoded # value
                   THEN ReplaceAll(raw, urlEncoded, REDACTED)
                   ELSE raw
      IN ReplaceAll(url, Base64Encode(value), REDACTED)
    ELSE raw

\* One turn of maskSecrets' loop for one secret value.
MaskValue(masked, value) ==
  IF value = << >> THEN masked
  ELSE
    LET raw == ReplaceAll(masked, value, REDACTED) IN
    IF Len(value) >= 4 THEN
      LET urlEncoded == EncodeURIComponent(value)
          url == IF urlEncoded # URIError /\ urlEncoded # value
                   THEN ReplaceAll(raw, urlEncoded, REDACTED)
                   ELSE raw
          base64Encoded == Base64Encode(value)
      IN ReplaceAll(url, base64Encoded, REDACTED)
    ELSE raw

\* The loop over Object.values(secrets), from the i-th secret on.
RECURSIVE MaskFrom(_, _, _)
MaskFrom(masked, secrets, i) ==
  IF i > Len(secrets) THEN masked
  ELSE MaskFrom(MaskValue(masked, secrets[i].value), secrets, i + 1)

maskSecrets(text, secrets) ==
  IF text = << >> THEN text ELSE MaskFrom(text, secrets, 1)

\* The while loop of truncateOutput: drop SLICE_CHARS code units from the end
\* until the text fits in limit bytes.
RECURSIVE ShrinkToFit(_, _)
ShrinkToFit(truncated, limit) ==
  IF ByteLength(truncated) > limit
    THEN ShrinkToFit(SliceOff(truncated, SLICE_CHARS), limit)
    ELSE truncated

truncateOutput(text, maxBytes) ==
  IF ByteLength(text) <= maxBytes
    THEN [text |-> text, truncated |-> FALSE]
    ELSE [text |-> ShrinkToFit(text, maxBytes - ByteLength(TRUNCATION_MESSAGE))
                   \o TRUNCATION_MESSAGE,
          truncated |-> TRUE]

(***************************************************************************)
(* Inputs of the model                                                      *)
(***************************************************************************)
\* n bytes of 'x'
Fill(n) == [i \in 1..n |-> 120]

\* The UTF-8 bytes of U+1F600, a 4-byte character (a surrogate pair in a string)
EmojiBytes == << 240, 159, 152, 128 >>

\* Secret values: 'abcd', 'a&b=', 'REDA', '%***', 'zz', '1MB', a value
\* holding a lone surrogate (encodeURIComponent throws on it), and 'bc'.
SecretAbcd == << 97, 98, 99, 100 >>

SecretAmp == << 97, 38, 98, 61 >>

SecretRed == << 82, 69, 68, 65 >>

SecretStar == << 37, 42, 42, 42 >>

SecretZz == << 122, 122 >>

SecretMb == << 49, 77, 66 >>

SecretLone == << 107, 55357, 101, 121 >>

\* 'bc', a part of 'abcd'
SecretBc == << 98, 99 >>

\* The secret maps the secret source may return, as parseEnvContent lists them.
SecretMaps ==
  { << >>,
    << [key |-> "A", value |-> SecretAbcd] >>,
    << [key |-> "A", value |-> SecretAmp], [key |-> "B", value |-> << >>] >>,
    << [key |-> "A", value |-> SecretRed] >>,
    << [key |-> "A", value |-> SecretStar], [key |-> "B", value |-> SecretZz] >>,
    << [key |-> "A", value |-> SecretLone], [key |-> "B", value |-> SecretMb] >>,
    << [key |-> "A", value |-> SecretBc], [key |-> "B", value |-> SecretAbcd] >> }

\* A chunk ending inside a 4-byte character: the URL form, the value and the
\* base64 form of 'a&b=', then '%25zz' and the first two bytes of U+1F600.
ChunkForms ==
  BufferFrom(EncodeURIComponent(SecretAmp) \o << 32 >> \o SecretAmp
             \o << 32 >> \o Base64Encode(SecretAmp) \o << 32, 37, 50, 53 >>
             \o SecretZz) \o << 240, 159 >>

\* The chunks the child may write to stdout (bytes): exactly the capture
\* bound; one byte less; 'x', two 4-byte characters and a run beyond the bound; secret
\* values and their encoded forms; the last one ends inside a 4-byte character.
Chunks ==
  { Fill(MAX_OUTPUT_BYTES),
    Fill(MAX_OUTPUT_BYTES - 1),
    << 120 >> \o EmojiBytes \o EmojiBytes \o Fill(MAX_OUTPUT_BYTES - 7),
    BufferFrom(<< 32 >> \o SecretAbcd \o << 32 >> \o Base64Encode(SecretAbcd) \o << 32 >>
               \o SecretRed \o << 32 >> \o SecretMb \o << 32 >>
               \o Base64Encode(SecretLone)),
    ChunkForms }

\* The chunks the child may write to stderr: two of those of stdout.
ErrChunks == { Fill(MAX_OUTPUT_BYTES), ChunkForms }

\* args.command: '', ' \t', 'ls'
Commands == { << >>, << 32, 9 >>, << 108, 115 >> }

\* args.timeout: absent, or a number of milliseconds
Timeouts ==
  { [present |-> FALSE, ms |-> 0] }
  \cup { [present |-> TRUE, ms |-> ms] : ms \in {0, 1000, 600000} }

\* An environment: variable name -> value.
NoEnv == [k \in {} |-> << >>]

\* process.env when injectRun is called: PATH=/bin with A=old, or PATH=/bin
\* with HOME=/ and B=old (A and B are also names of secrets).
AmbientEnvs ==
  { [k \in {"PATH", "A"} |-> IF k = "PATH" THEN << 47, 98, 105, 110 >>
                                            ELSE << 111, 108, 100 >>],
    [k \in {"PATH", "HOME", "B"} |->
       IF k = "PATH" THEN << 47, 98, 105, 110 >>
       ELSE IF k = "HOME" THEN << 47 >> ELSE << 111, 108, 100 >>] }

\* args.args: absent, or a vector of strings: ['-c', 'echo $A; id']
ArgvShell == << << 45, 99 >>, << 101, 99, 104, 111, 32, 36, 65, 59, 32, 105, 100 >> >>

Argvs == { [present |-> FALSE, list |-> << >>], [present |-> TRUE, list |-> ArgvShell] }

\* The calls of the model: every timeout, the one of 1000 ms with the
\* argument vector and the first environment, the others without arguments
\* and with the second (nothing in injectRun relates the three; taking them
\* together keeps the number of calls small).
Launches ==
  { l \in [timeout : Timeouts, argv : Argvs, ambient : AmbientEnvs] :
      /\ l.argv.present <=> (l.timeout.ms = 1000)
      /\ l.argv.present <=> ("HOME" \notin DOMAIN l.ambient) }

\* The exit codes a child may end with; signal marks an end by a signal, which
\* Node reports as code null.
ExitCodes ==
  { [signal |-> FALSE, code |-> 0], [signal |-> FALSE, code |-> 2],
    [signal |-> TRUE, code |-> 0] }

(***************************************************************************)
(* State                                                                    *)
(***************************************************************************)
VARIABLES
  command,       \* args.command
  timeoutArg,    \* args.timeout
  argv,          \* args.args
  ambient,       \* process.env
  ambientAtCall, \* process.env as it was when injectRun was called (history)
  spawned,       \* the file, argument vector and options spawn was called with
  pc,            \* where injectRun stands: start, awaitToken, awaitSecrets,
                 \* running (awaiting the promise), returned
  tokenReads,    \* calls of getToken
  fetchCalls,    \* calls of pullSecrets
  fetched,       \* how pullSecrets ended: none (not called), pending, ok, or
                 \* the error it threw
  spawns,        \* calls of spawn
  secrets,       \* parseEnvContent(content)
  timeout,       \* the delay the timeout timer is armed with
  now,           \* the clock, in ms
  timer,         \* the timeout timer: unset, armed, fired, cleared
  timerDue,
  killTimer,     \* the SIGKILL timer: unset, armed, fired
  killDue,
  child,         \* none, running, exited, failed, closed
  childCode,     \* what the child ended with
  stdout, stderr, stdoutBytes, stderrBytes,
  written,       \* bytes the child wrote to each pipe so far
  dataEvents,    \* number of 'data' events delivered
  kills,         \* the child.kill calls made, in order
  promise,       \* the promise injectRun awaits
  firstEvent,    \* the first of close / timeout / error to be handled
  outcome,       \* what the caller of injectRun got: none yet, invalid (the
                 \* 'command is required' result), result, or thrown
  diffArgs,      \* keyway_diff: args.env1 and args.env2
  diffPc,        \* where diff stands: idle (not called), start, awaitToken,
                 \* awaitFirst, awaitSecond, returned
  diffFetch1,    \* how pullSecrets ended for env1, and for env2
  diffFetch2,
  diffOutcome,   \* what the caller of diff got
  calls,         \* two concurrent calls of injectRun: for each, the variables
                 \* of its closure (and what was delivered to it, as history)
  callsNow,      \* the clock of the two concurrent calls, in ms
  val,           \* keyway_validate: the arguments, the position, the result
  gen,           \* keyway_generate: the arguments, the position, the locals
                 \* and the result of one call of generate
  vault,         \* the secrets the server holds for the environment
  setter,        \* keyway_set_secret: one call of setSecret
  req,           \* the API client: one call of pullSecrets, pushSecrets or
                 \* getSecretValue, with its attempts and sleeps
  auth           \* getToken: the stored record, the clock, the position and
                 \* what the caller got

\* The state of injectRun.
injectVars ==
  << command, timeoutArg, argv, ambient, ambientAtCall, spawned, fetched, pc,
     tokenReads, fetchCalls, spawns, secrets, timeout, now, timer, timerDue,
     killTimer, killDue, child, childCode, stdout, stderr, stdoutBytes, stderrBytes,
     written, dataEvents, kills, promise, firstEvent, outcome >>

\* The state of diff.
diffVars == << diffArgs, diffPc, diffFetch1, diffFetch2, diffOutcome >>

\* The state of two concurrent calls of injectRun.
pairVars == << calls, callsNow >>

\* The state of validate, of generate and setSecret with the vault, of the
\* API client and of getToken.
toolVars == << val, gen, vault, setter, req, auth >>

\* The state of the tools other than injectRun, and of the concurrent calls.
otherTools == << diffVars, pairVars, toolVars >>

vars == << injectVars, otherTools >>

ioVars == << stdout, stderr, stdoutBytes, stderrBytes, written, dataEvents >>

timerVars == << timer, timerDue, killTimer, killDue >>

argVars == << command, timeoutArg, argv >>

envVars == << ambient, ambientAtCall >>

\* Before spawn is called.
NoSpawn == [file |-> << >>, args |-> << >>, shell |-> FALSE, env |-> NoEnv]

NoResult ==
  [exitCode |-> 0, stdout |-> << >>, stderr |-> << >>,
   stdoutTruncated |-> FALSE, stderrTruncated |-> FALSE]

Pending == [state |-> "pending", value |-> NoResult, error |-> "none", ms |-> 0]

NoResponse ==
  [exitCode |-> 0, stdout |-> << >>, stderr |-> << >>, secretsInjected |-> 0,
   hasWarnings |-> FALSE, warnings |-> << >>]

NoOutcome ==
  [kind |-> "none", isError |-> FALSE, text |-> "", response |-> NoResponse,
   error |-> "none", ms |-> 0]

\* No environment fetched (yet).
NoFetch == [state |-> "none", secrets |-> NoEnv, error |-> ""]

NoDiffResult ==
  [env1 |-> << >>, env2 |-> << >>, onlyInEnv1 |-> << >>, onlyInEnv2 |-> << >>,
   different |-> << >>, same |-> << >>,
   stats |-> [totalEnv1 |-> 0, totalEnv2 |-> 0, onlyInEnv1 |-> 0, onlyInEnv2 |-> 0,
              different |-> 0, same |-> 0]]

NoDiffOutcome ==
  [kind |-> "none", isError |-> FALSE, text |-> "", result |-> NoDiffResult,
   warnings |-> << >>]

\* injectRun has been called and has not run yet.
InjectStart ==
  /\ spawned = NoSpawn
  /\ pc = "start"
  /\ tokenReads = 0 /\ fetchCalls = 0 /\ spawns = 0
  /\ fetched = "none"
  /\ secrets = << >>
  /\ timeout = 0
  /\ now = 0
  /\ timer = "unset" /\ timerDue = 0
  /\ killTimer = "unset" /\ killDue = 0
  /\ child = "none"
  /\ childCode = [signal |-> FALSE, code |-> 0]
  /\ stdout = << >> /\ stderr = << >>
  /\ stdoutBytes = 0 /\ stderrBytes = 0
  /\ written = [stdout |-> 0, stderr |-> 0]
  /\ dataEvents = 0
  /\ kills = << >>
  /\ promise = Pending
  /\ firstEvent = "none"
  /\ outcome = NoOutcome

\* injectRun is not called.
InjectIdle ==
  /\ command = << >>
  /\ timeoutArg = [present |-> FALSE, ms |-> 0]
  /\ argv = [present |-> FALSE, list |-> << >>]
  /\ ambient = NoEnv /\ ambientAtCall = NoEnv
  /\ InjectStart

\* diff is not called.
DiffIdle ==
  /\ diffArgs = [env1 |-> << >>, env2 |-> << >>]
  /\ diffPc = "idle"
  /\ diffFetch1 = NoFetch /\ diffFetch2 = NoFetch
  /\ diffOutcome = NoDiffOutcome

\* The two executions that run concurrently.
Executions == {1, 2}

\* The variables of one call of injectRun before it runs; pulled and
\* delivered are history: the map pullSecrets and parseEnvContent gave this
\* call, and the chunks its child's pipes handed to its handlers.
NewCall(pc0, t) ==
  [pc |-> pc0, timeoutArg |-> t, secrets |-> << >>, pulled |-> << >>,
   env |-> NoEnv, timeout |-> 0,
   timer |-> "unset", timerDue |-> 0, killTimer |-> "unset", killDue |-> 0,
   child |-> "none", childCode |-> [signal |-> FALSE, code |-> 0],
   stdout |-> << >>, stderr |-> << >>, stdoutBytes |-> 0, stderrBytes |-> 0,
   delivered |-> << >>, kills |-> << >>, promise |-> Pending, outcome |-> NoOutcome]

\* No concurrent calls are made.
PairIdle ==
  /\ calls = [i \in Executions |-> NewCall("idle", [present |-> FALSE, ms |-> 0])]
  /\ callsNow = 0

\* validate, generate, setSecret, the API client and getToken are not called.
NotCalled == [pc |-> "idle"]

ToolsIdle ==
  /\ val = NotCalled
  /\ gen = NotCalled /\ vault = NoEnv /\ setter = NotCalled
  /\ req = NotCalled
  /\ auth = NotCalled

\* One call of injectRun.
Init ==
  /\ command \in Commands
  /\ \E l \in Launches :
       /\ timeoutArg = l.timeout
       /\ argv = l.argv /\ ambient = l.ambient /\ ambientAtCall = l.ambient
  /\ InjectStart
  /\ DiffIdle
  /\ PairIdle
  /\ ToolsIdle

(***************************************************************************)
(* injectRun                                                                *)
(***************************************************************************)
\* White space as String.prototype.trim sees it.
IsWhiteSpace(u) ==
  \/ u \in {9, 10, 11, 12, 13, 32, 160, 5760, 8232, 8233, 8239, 8287, 12288, 65279}
  \/ (u >= 8192 /\ u <= 8202)

\* args.command.trim() is empty exactly when every code unit is white space.
TrimIsEmpty(s) == \A i \in 1..Len(s) : IsWhiteSpace(s[i])

\* The validation without the trim.
CommandMissingNoTrim(cmd) == cmd = << >>

\* !args.command || !args.command.trim()
CommandMissing(cmd) == cmd = << >> \/ TrimIsEmpty(cmd)

Min(a, b) == IF a <= b THEN a ELSE b

Max(a, b) == IF a >= b THEN a ELSE b

\* Math.min(args.timeout || DEFAULT_TIMEOUT_MS, DEFAULT_TIMEOUT_MS)
EffectiveTimeout(t) ==
  Min(IF t.present /\ t.ms # 0 THEN t.ms ELSE DEFAULT_TIMEOUT_MS, DEFAULT_TIMEOUT_MS)

\* The delay setTimeout runs with: Node turns a delay below 1 into 1.
TimerDelay(ms) == IF ms >= 1 THEN ms ELSE 1

\* resolve / reject: only the first call settles a promise.
Settle(p, settled) == IF p.state = "pending" THEN settled ELSE p

Resolved(v) == [state |-> "resolved", value |-> v, error |-> "none", ms |-> 0]

Rejected(e, ms) == [state |-> "rejected", value |-> NoResult, error |-> e, ms |-> ms]

Thrown(e, ms) ==
  [kind |-> "thrown", isError |-> TRUE, text |-> "", response |-> NoResponse,
   error |-> e, ms |-> ms]

\* Node runs a callback of the event loop only when no promise reaction is
\* waiting: the continuation of injectRun's await runs before the next event.
EventLoopIdle == ~(pc = "running" /\ promise.state # "pending")

\* The first handled event among close, timeout and error (history).
First(e) == IF firstEvent = "none" THEN e ELSE firstEvent

\* Lines 84-92: the validation, then the call of getToken.
Invoke ==
  /\ pc = "start"
  /\ IF CommandMissing(command)
       THEN /\ outcome' = [NoOutcome EXCEPT !.kind = "invalid", !.isError = TRUE,
                                            !.text = "Error: command is required"]
            /\ pc' = "returned"
            /\ UNCHANGED tokenReads
       ELSE /\ tokenReads' = tokenReads + 1
            /\ pc' = "awaitToken"
            /\ UNCHANGED outcome
  /\ UNCHANGED << otherTools, argVars, envVars, spawned, fetched, fetchCalls, spawns, secrets, timeout, now, timerVars,
                  child, childCode, ioVars, kills, promise, firstEvent >>

\* getToken rejects: injectRun throws what it threw.
TokenFail ==
  /\ pc = "awaitToken"
  /\ outcome' = Thrown("AuthError", 0)
  /\ pc' = "returned"
  /\ UNCHANGED << otherTools, argVars, envVars, spawned, fetched, tokenReads, fetchCalls, spawns, secrets, timeout, now,
                  timerVars, child, childCode, ioVars, kills, promise, firstEvent >>

\* Lines 92-98: the token arrives; the timeout is computed and pullSecrets called.
TokenOk ==
  /\ pc = "awaitToken"
  /\ timeout' = EffectiveTimeout(timeoutArg)
  /\ fetchCalls' = fetchCalls + 1
  /\ fetched' = "pending"
  /\ pc' = "awaitSecrets"
  /\ UNCHANGED << otherTools, argVars, envVars, spawned, tokenReads, spawns, secrets, now, timerVars, child,
                  childCode, ioVars, kills, promise, firstEvent, outcome >>

\* The errors pullSecrets throws (src/utils/api.ts): an APIError of the
\* server's answer, the request's timeout, an answer without content.
FetchErrors ==
  { "HTTP 404", "Request timeout after 30s", "Invalid response format from API" }

\* A failed fetch taken for an empty secret map: the child is spawned.
SecretsFailRunsBare(err) ==
  /\ pc = "awaitSecrets"
  /\ fetched' = err
  /\ secrets' = << >>
  /\ spawned' = [file |-> command, args |-> IF argv.present THEN argv.list ELSE << >>,
                 shell |-> FALSE, env |-> ambient]
  /\ spawns' = spawns + 1
  /\ child' = "running"
  /\ timer' = "armed"
  /\ timerDue' = now + TimerDelay(timeout)
  /\ pc' = "running"
  /\ UNCHANGED << otherTools, argVars, envVars, tokenReads, fetchCalls, timeout, now, killTimer,
                  killDue, childCode, ioVars, kills, promise, firstEvent, outcome >>

\* Line 98: pullSecrets rejects; injectRun has no handler, it throws what
\* pullSecrets threw.
SecretsFail(err) ==
  /\ pc = "awaitSecrets"
  /\ fetched' = err
  /\ outcome' = Thrown(err, 0)
  /\ pc' = "returned"
  /\ UNCHANGED << otherTools, argVars, envVars, spawned, tokenReads, fetchCalls, spawns, secrets,
                  timeout, now, timerVars, child, childCode, ioVars, kills, promise,
                  firstEvent >>

\* The merge with the ambient variables spread last: an ambient variable
\* overrides the secret of the same name.
MergeEnvAmbientLast(env, s) ==
  [k \in DOMAIN env \cup { s[i].key : i \in 1..Len(s) } |->
     IF k \in DOMAIN env
       THEN env[k]
       ELSE s[CHOOSE i \in 1..Len(s) : s[i].key = k].value]

\* Line 102: { ...process.env, ...secrets }, a new object: the ambient
\* variables, then every secret under its name.
MergeEnv(env, s) ==
  [k \in DOMAIN env \cup { s[i].key : i \in 1..Len(s) } |->
     IF \E i \in 1..Len(s) : s[i].key = k
       THEN s[CHOOSE i \in 1..Len(s) : s[i].key = k].value
       ELSE env[k]]

\* The command and its arguments joined with spaces into one string, run by
\* a shell.
RECURSIVE JoinArgs(_, _)
JoinArgs(list, i) ==
  IF i > Len(list) THEN << >> ELSE << 32 >> \o list[i] \o JoinArgs(list, i + 1)

SpawnCallShell(cmd, a, env) ==
  [file |-> cmd \o JoinArgs(IF a.present THEN a.list ELSE << >>, 1),
   args |-> << >>, shell |-> TRUE, env |-> env]

\* Lines 112-117: spawn(args.command, args.args || [], { env, shell: false }).
SpawnCall(cmd, a, env) ==
  [file |-> cmd, args |-> IF a.present THEN a.list ELSE << >>, shell |-> FALSE,
   env |-> env]

\* Lines 98-129: the secrets arrive; the child is spawned and the timer armed.
SecretsOk(s) ==
  /\ pc = "awaitSecrets"
  /\ fetched' = "ok"
  /\ secrets' = s
  /\ spawned' = SpawnCall(command, argv, MergeEnv(ambient, s))
  /\ UNCHANGED envVars
  /\ spawns' = spawns + 1
  /\ child' = "running"
  /\ timer' = "armed"
  /\ timerDue' = now + TimerDelay(timeout)
  /\ pc' = "running"
  /\ UNCHANGED << otherTools, argVars, tokenReads, fetchCalls, timeout, now, killTimer, killDue,
                  childCode, ioVars, kills, promise, firstEvent, outcome >>

\* The stdout handler without the test of stdoutBytes: every chunk is appended.
StdoutDataNoBound(data) ==
  /\ EventLoopIdle
  /\ child \in {"running", "exited"}
  /\ dataEvents < MaxDataEvents
  /\ dataEvents' = dataEvents + 1
  /\ written' = [written EXCEPT !.stdout = @ + Len(data)]
  /\ stdout' = stdout \o BufferToString(data)
  /\ stdoutBytes' = stdoutBytes + Len(data)
  /\ UNCHANGED << otherTools, argVars, envVars, spawned, fetched, pc, tokenReads, fetchCalls, spawns, secrets, timeout, now,
                  timerVars, child, childCode, stderr, stderrBytes, kills, promise,
                  firstEvent, outcome >>

\* Lines 131-137: child.stdout.on('data')
StdoutData(data) ==
  /\ EventLoopIdle
  /\ child \in {"running", "exited"}
  /\ dataEvents < MaxDataEvents
  /\ dataEvents' = dataEvents + 1
  /\ written' = [written EXCEPT !.stdout = @ + Len(data)]
  /\ IF stdoutBytes < MAX_OUTPUT_BYTES
       THEN /\ stdout' = stdout \o BufferToString(data)
            /\ stdoutBytes' = stdoutBytes + Len(data)
       ELSE UNCHANGED << stdout, stdoutBytes >>
  /\ UNCHANGED << otherTools, argVars, envVars, spawned, fetched, pc, tokenReads, fetchCalls, spawns, secrets, timeout, now,
                  timerVars, child, childCode, stderr, stderrBytes, kills, promise,
                  firstEvent, outcome >>

\* Lines 139-144: child.stderr.on('data')
StderrData(data) ==
  /\ EventLoopIdle
  /\ child \in {"running", "exited"}
  /\ dataEvents < MaxDataEvents
  /\ dataEvents' = dataEvents + 1
  /\ written' = [written EXCEPT !.stderr = @ + Len(data)]
  /\ IF stderrBytes < MAX_OUTPUT_BYTES
       THEN /\ stderr' = stderr \o BufferToString(data)
            /\ stderrBytes' = stderrBytes + Len(data)
       ELSE UNCHANGED << stderr, stderrBytes >>
  /\ UNCHANGED << otherTools, argVars, envVars, spawned, fetched, pc, tokenReads, fetchCalls, spawns, secrets, timeout, now,
                  timerVars, child, childCode, stdout, stdoutBytes, kills, promise,
                  firstEvent, outcome >>

\* The child process ends (by itself or by a signal); its pipes are still open.
ChildExit(code) ==
  /\ child = "running"
  /\ child' = "exited"
  /\ childCode' = code
  /\ UNCHANGED << otherTools, argVars, envVars, spawned, fetched, pc, tokenReads, fetchCalls, spawns, secrets, timeout, now,
                  timerVars, ioVars, kills, promise, firstEvent, outcome >>

\* The close handler taking the exit code as it comes: the code of a child
\* ended by a signal (null) is not replaced by 1.
CloseResultNoNormalise(code) ==
  LET stdoutResult == truncateOutput(stdout, MAX_OUTPUT_BYTES)
      stderrResult == truncateOutput(stderr, MAX_OUTPUT_BYTES)
  IN [exitCode |-> code.code,
      stdout |-> maskSecrets(stdoutResult.text, secrets),
      stderr |-> maskSecrets(stderrResult.text, secrets),
      stdoutTruncated |-> stdoutResult.truncated \/ stdoutBytes >= MAX_OUTPUT_BYTES,
      stderrTruncated |-> stderrResult.truncated \/ stderrBytes >= MAX_OUTPUT_BYTES]

\* The value the close handler resolves the promise with (lines 149-159).
CloseResult(code) ==
  LET stdoutResult == truncateOutput(stdout, MAX_OUTPUT_BYTES)
      stderrResult == truncateOutput(stderr, MAX_OUTPUT_BYTES)
  IN [exitCode |-> IF code.signal THEN 1 ELSE code.code,
      stdout |-> maskSecrets(stdoutResult.text, secrets),
      stderr |-> maskSecrets(stderrResult.text, secrets),
      stdoutTruncated |-> stdoutResult.truncated \/ stdoutBytes >= MAX_OUTPUT_BYTES,
      stderrTruncated |-> stderrResult.truncated \/ stderrBytes >= MAX_OUTPUT_BYTES]

\* clearTimeout(timer)
ClearTimer(t) == IF t = "armed" THEN "cleared" ELSE t

\* Lines 146-160: child.on('close')
Close ==
  /\ EventLoopIdle
  /\ child \in {"exited", "failed"}
  /\ child' = "closed"
  /\ timer' = ClearTimer(timer)
  /\ promise' = Settle(promise, Resolved(CloseResult(childCode)))
  /\ firstEvent' = First("close")
  /\ UNCHANGED << otherTools, argVars, envVars, spawned, fetched, pc, tokenReads, fetchCalls, spawns, secrets, timeout, now,
                  timerDue, killTimer, killDue, childCode, ioVars, kills, outcome >>

\* The errors spawn fails with: ENOENT (-2), EACCES (-13).
SpawnErrnos == { -2, -13 }

\* err.message of the error Node emits for a failed spawn.
SpawnErrorMessage(errno) == IF errno = -2 THEN "spawn ENOENT" ELSE "spawn EACCES"

\* Line 164: new Error(`Failed to execute command: ${err.message}`)
ExecError(message) == "Failed to execute command: " \o message

\* The error handler without its clearTimeout(timer).
ErrorEventNoClear(errno) ==
  /\ EventLoopIdle
  /\ child = "running"
  /\ dataEvents = 0 /\ timer = "armed" /\ now = 0
  /\ child' = "failed"
  /\ childCode' = [signal |-> FALSE, code |-> errno]
  /\ promise' = Settle(promise, Rejected(ExecError(SpawnErrorMessage(errno)), 0))
  /\ firstEvent' = First("error")
  /\ UNCHANGED << otherTools, argVars, envVars, spawned, fetched, pc, tokenReads, fetchCalls, spawns,
                  secrets, timeout, now, timer, timerDue, killTimer, killDue, ioVars,
                  kills, outcome >>

\* Lines 162-165: child.on('error'): the process could not be started.  Node
\* reports it on the next tick after spawn, before any I/O or timer, and
\* emits 'close' (with the negated errno) after it.
ErrorEvent(errno) ==
  /\ EventLoopIdle
  /\ child = "running"
  /\ dataEvents = 0 /\ timer = "armed" /\ now = 0
  /\ child' = "failed"
  /\ childCode' = [signal |-> FALSE, code |-> errno]
  /\ timer' = ClearTimer(timer)
  /\ promise' = Settle(promise, Rejected(ExecError(SpawnErrorMessage(errno)), 0))
  /\ firstEvent' = First("error")
  /\ UNCHANGED << otherTools, argVars, envVars, spawned, fetched, pc, tokenReads, fetchCalls, spawns, secrets, timeout, now,
                  timerDue, killTimer, killDue, ioVars, kills, outcome >>

\* child.kill(signal), recorded with the time and the child's state.
Kill(signal, at) == Append(kills, [signal |-> signal, at |-> at, child |-> child])

\* The timer's callback without its reject: the signals are sent and the
\* promise is left pending.
TimerFireNoReject ==
  /\ EventLoopIdle
  /\ timer = "armed"
  /\ now' = Max(now, timerDue)
  /\ timer' = "fired"
  /\ kills' = Kill("SIGTERM", now')
  /\ killTimer' = "armed"
  /\ killDue' = now' + GRACE_MS
  /\ firstEvent' = First("timeout")
  /\ UNCHANGED << otherTools, argVars, envVars, spawned, fetched, pc, tokenReads, fetchCalls, spawns, secrets, timeout,
                  timerDue, child, childCode, ioVars, promise, outcome >>

\* Lines 124-129: the timeout timer's callback.  A timer never runs early: time
\* has passed at least until it is due when its callback runs.
TimerFire ==
  /\ EventLoopIdle
  /\ timer = "armed"
  /\ now' = Max(now, timerDue)
  /\ timer' = "fired"
  /\ kills' = Kill("SIGTERM", now')
  /\ killTimer' = "armed"
  /\ killDue' = now' + GRACE_MS
  /\ promise' = Settle(promise, Rejected("Command timed out", timeout))
  /\ firstEvent' = First("timeout")
  /\ UNCHANGED << otherTools, argVars, envVars, spawned, fetched, pc, tokenReads, fetchCalls, spawns, secrets, timeout,
                  timerDue, child, childCode, ioVars, outcome >>

\* Line 127: the inner timer's callback.
KillTimerFire ==
  /\ EventLoopIdle
  /\ killTimer = "armed"
  /\ now' = Max(now, killDue)
  /\ killTimer' = "fired"
  /\ kills' = Kill("SIGKILL", now')
  /\ UNCHANGED << otherTools, argVars, envVars, spawned, fetched, pc, tokenReads, fetchCalls, spawns, secrets, timeout,
                  timer, timerDue, killDue, child, childCode, ioVars, promise,
                  firstEvent, outcome >>

\* The response counting only the secrets with a non-empty value.
ResponseCountsNonEmpty(result) ==
  LET w1 == IF result.stdoutTruncated
              THEN << "stdout was truncated (exceeded 1MB)" >> ELSE << >>
      w2 == IF result.stderrTruncated
              THEN << "stderr was truncated (exceeded 1MB)" >> ELSE << >>
  IN [exitCode |-> result.exitCode,
      stdout |-> result.stdout,
      stderr |-> result.stderr,
      secretsInjected |->
        Cardinality({ i \in 1..Len(secrets) : secrets[i].value # << >> }),
      hasWarnings |-> result.stdoutTruncated \/ result.stderrTruncated,
      warnings |-> w1 \o w2]

\* Lines 168-184: the response built from a resolved promise.
Response(result) ==
  LET w1 == IF result.stdoutTruncated
              THEN << "stdout was truncated (exceeded 1MB)" >> ELSE << >>
      w2 == IF result.stderrTruncated
              THEN << "stderr was truncated (exceeded 1MB)" >> ELSE << >>
  IN [exitCode |-> result.exitCode,
      stdout |-> result.stdout,
      stderr |-> result.stderr,
      secretsInjected |-> Len(secrets),
      hasWarnings |-> result.stdoutTruncated \/ result.stderrTruncated,
      warnings |-> w1 \o w2]

\* Lines 166-194: the await ends; injectRun returns the result or throws.
Return ==
  /\ pc = "running"
  /\ promise.state # "pending"
  /\ pc' = "returned"
  /\ outcome' =
       IF promise.state = "resolved"
         THEN [NoOutcome EXCEPT !.kind = "result",
                                !.isError = (promise.value.exitCode # 0),
                                !.response = Response(promise.value)]
         ELSE Thrown(promise.error, promise.ms)
  /\ UNCHANGED << otherTools, argVars, envVars, spawned, fetched, tokenReads, fetchCalls, spawns, secrets, timeout, now,
                  timerVars, child, childCode, ioVars, kills, promise, firstEvent >>

Next ==
  \/ Invoke
  \/ TokenFail
  \/ TokenOk
  \/ \E err \in FetchErrors : SecretsFail(err)
  \/ \E s \in SecretMaps : SecretsOk(s)
  \/ \E data \in Chunks : StdoutData(data)
  \/ \E data \in ErrChunks : StderrData(data)
  \/ \E code \in ExitCodes : ChildExit(code)
  \/ Close
  \/ \E errno \in SpawnErrnos : ErrorEvent(errno)
  \/ TimerFire
  \/ KillTimerFire
  \/ Return

Spec == Init /\ [][Next]_vars

(***************************************************************************)
(* keyway_diff: previewValue, normalizeEnvName, compareSecrets              *)
(***************************************************************************)
\* String.prototype.toLowerCase, on the letters A-Z.
ToLower(s) == [i \in 1..Len(s) |-> IF s[i] >= 65 /\ s[i] <= 90 THEN s[i] + 32 ELSE s[i]]

\* String.prototype.trim
Trim(s) ==
  LET kept == { i \in 1..Len(s) : ~IsWhiteSpace(s[i]) }
  IN IF kept = {} THEN << >>
     ELSE SubSeq(s, CHOOSE i \in kept : \A j \in kept : i <= j,
                    CHOOSE i \in kept : \A j \in kept : i >= j)

\* Lines 56-68: dev -> development, prod -> production, stg -> staging
normalizeEnvName(env) ==
  LET normalized == Trim(ToLower(env))
  IN IF normalized = << 112, 114, 111, 100 >> THEN << 112, 114, 111, 100, 117, 99, 116, 105, 111, 110 >>
     ELSE IF normalized = << 100, 101, 118 >> THEN << 100, 101, 118, 101, 108, 111, 112, 109, 101, 110, 116 >>
     ELSE IF normalized = << 115, 116, 103 >> THEN << 115, 116, 97, 103, 105, 110, 103 >>
     ELSE normalized

\* A number in decimal, as a template literal writes it.
RECURSIVE Digits(_)
Digits(n) == IF n < 10 THEN << 48 + n >> ELSE Digits(n \div 10) \o << 48 + (n % 10) >>

\* ` (${length} chars)`
CharsSuffix(length) == << 32, 40 >> \o Digits(length) \o << 32, 99, 104, 97, 114, 115, 41 >>

\* The function Object, the value of the property 'constructor' every plain
\* object inherits from Object.prototype: not a string; its length is 1.
ObjectFunction == << -3 >>

\* String(Object): 'function Object() { [native code] }'
ObjectFunctionText == << 102, 117, 110, 99, 116, 105, 111, 110, 32, 79, 98, 106, 101, 99, 116, 40, 41, 32, 123, 32, 91, 110, 97, 116, 105, 118, 101, 32, 99, 111, 100, 101, 93, 32, 125 >>

\* 'constructor'
KeyConstructor == << 99, 111, 110, 115, 116, 114, 117, 99, 116, 111, 114 >>

\* The properties a plain object inherits (of Object.prototype, the one the
\* model holds).
ObjectPrototype == [k \in {KeyConstructor} |-> ObjectFunction]

\* key in obj: an own property, or an inherited one.
HasProperty(obj, key) == key \in DOMAIN obj \/ key \in DOMAIN ObjectPrototype

\* obj[key] ?? ''
GetOrEmpty(obj, key) ==
  IF key \in DOMAIN obj THEN obj[key]
  ELSE IF key \in DOMAIN ObjectPrototype THEN ObjectPrototype[key]
  ELSE << >>

\* Lines 42-51: '(empty)', or '**' + the last 2 code units + the length; a
\* value of 1 or 2 code units is shown whole (and so is the function Object,
\* whose length is 1).
previewValue(value) ==
  IF value = ObjectFunction
    THEN << 42, 42 >> \o ObjectFunctionText \o CharsSuffix(1)
  ELSE IF Len(value) = 0 THEN << 40, 101, 109, 112, 116, 121, 41 >>
  ELSE IF Len(value) <= 2 THEN << 42, 42 >> \o value \o CharsSuffix(Len(value))
  ELSE << 42, 42 >> \o SubSeq(value, Len(value) - 1, Len(value)) \o CharsSuffix(Len(value))

\* The order of Array.prototype.sort without a comparator: by UTF-16 code units.
LessKey(a, b) ==
  \E i \in 1..(Len(a) + 1) :
    /\ \A j \in 1..(i - 1) : j <= Len(b) /\ a[j] = b[j]
    /\ \/ i > Len(a) /\ i <= Len(b)
       \/ i <= Len(a) /\ i <= Len(b) /\ a[i] < b[i]

\* Line 86: Array.from(allKeys).sort()
RECURSIVE SortedKeys(_)
SortedKeys(keys) ==
  IF keys = {} THEN << >>
  ELSE LET first == CHOOSE k \in keys : \A o \in keys \ {k} : LessKey(k, o)
       IN << first >> \o SortedKeys(keys \ {first})

\* Lines 73-125.  A secret map is a plain object: a function from its own
\* keys to their values, with the properties of Object.prototype behind it.
compareSecrets(env1, env2, secrets1, secrets2) ==
  LET sortedKeys == SortedKeys(DOMAIN secrets1 \cup DOMAIN secrets2)
      inEnv1(key) == HasProperty(secrets1, key)
      inEnv2(key) == HasProperty(secrets2, key)
      val1(key) == GetOrEmpty(secrets1, key)
      val2(key) == GetOrEmpty(secrets2, key)
      OnlyIn1(key) == inEnv1(key) /\ ~inEnv2(key)
      OnlyIn2(key) == ~inEnv1(key) /\ inEnv2(key)
      Differ(key) == ~OnlyIn1(key) /\ ~OnlyIn2(key) /\ val1(key) # val2(key)
      Same(key) == ~OnlyIn1(key) /\ ~OnlyIn2(key) /\ val1(key) = val2(key)
      onlyInEnv1 == SelectSeq(sortedKeys, OnlyIn1)
      onlyInEnv2 == SelectSeq(sortedKeys, OnlyIn2)
      differing == SelectSeq(sortedKeys, Differ)
      same == SelectSeq(sortedKeys, Same)
      different ==
        [i \in 1..Len(differing) |->
           [key |-> differing[i],
            preview1 |-> previewValue(val1(differing[i])),
            preview2 |-> previewValue(val2(differing[i]))]]
  IN [env1 |-> env1, env2 |-> env2,
      onlyInEnv1 |-> onlyInEnv1, onlyInEnv2 |-> onlyInEnv2,
      different |-> different, same |-> same,
      stats |-> [totalEnv1 |-> Cardinality(DOMAIN secrets1),
                 totalEnv2 |-> Cardinality(DOMAIN secrets2),
                 onlyInEnv1 |-> Len(onlyInEnv1), onlyInEnv2 |-> Len(onlyInEnv2),
                 different |-> Len(different), same |-> Len(same)]]

(***************************************************************************)
(* keyway_diff: diff                                                        *)
(***************************************************************************)
\* args.env1 / args.env2: '', 'dev', 'Development ', 'prod'
DiffEnvNames == { << >>, << 100, 101, 118 >>, << 68, 101, 118, 101, 108, 111, 112, 109, 101, 110, 116, 32 >>, << 112, 114, 111, 100 >> }

\* Keys 'A', 'AB', 'B', 'a', 'constructor' and values of 0, 1, 2 and 6 code
\* units.
KeyA == << 65 >>

KeyAB == << 65, 66 >>

KeyB == << 66 >>

KeyLowerA == << 97 >>

\* The secret maps of an environment.
DiffMaps ==
  { NoEnv,
    [k \in {KeyA, KeyB, KeyLowerA} |->
       IF k = KeyA THEN << 97, 98 >> ELSE IF k = KeyB THEN << 115, 51, 99, 114, 101, 116 >> ELSE << >>],
    [k \in {KeyA, KeyB, KeyAB} |->
       IF k = KeyA THEN << 99, 100 >> ELSE IF k = KeyB THEN << 115, 51, 99, 114, 101, 116 >> ELSE << 120 >>],
    [k \in {KeyB, KeyConstructor} |-> IF k = KeyB THEN << 115, 51, 99, 114, 101, 116 >> ELSE << 120 >>],
    [k \in {KeyB, KeyLowerA} |-> IF k = KeyB THEN << 115, 51, 99, 114, 101, 55 >> ELSE << 113 >>] }

\* How pullSecrets and parseEnvContent may end for an environment.
DiffFetches ==
  { [state |-> "ok", secrets |-> m, error |-> ""] : m \in DiffMaps }
  \cup { [state |-> "failed", secrets |-> NoEnv, error |-> "HTTP 404"] }

DiffInvalid(text) ==
  [NoDiffOutcome EXCEPT !.kind = "invalid", !.isError = TRUE, !.text = text]

\* Lines 127-146: the validation, then the call of getToken.
DiffInvoke ==
  /\ diffPc = "start"
  /\ IF diffArgs.env1 = << >> \/ diffArgs.env2 = << >>
       THEN /\ diffOutcome' = DiffInvalid("Error: Both env1 and env2 are required")
            /\ diffPc' = "returned"
       ELSE IF normalizeEnvName(diffArgs.env1) = normalizeEnvName(diffArgs.env2)
         THEN /\ diffOutcome' =
                   DiffInvalid("Error: Cannot compare an environment with itself")
              /\ diffPc' = "returned"
         ELSE /\ diffPc' = "awaitToken"
              /\ UNCHANGED diffOutcome
  /\ UNCHANGED << injectVars, pairVars, toolVars, diffArgs, diffFetch1, diffFetch2 >>

\* getToken rejects: diff throws what it threw.
DiffTokenFail ==
  /\ diffPc = "awaitToken"
  /\ diffOutcome' = [NoDiffOutcome EXCEPT !.kind = "thrown", !.isError = TRUE,
                                         !.text = "AuthError"]
  /\ diffPc' = "returned"
  /\ UNCHANGED << injectVars, pairVars, toolVars, diffArgs, diffFetch1, diffFetch2 >>

\* Lines 146-156: the token arrives; pullSecrets is called for env1.
DiffTokenOk ==
  /\ diffPc = "awaitToken"
  /\ diffPc' = "awaitFirst"
  /\ UNCHANGED << injectVars, pairVars, toolVars, diffArgs, diffFetch1, diffFetch2, diffOutcome >>

\* Lines 155-163: the fetch of env1 ends (its error is caught); pullSecrets is
\* called for env2.
DiffFirst(fetch) ==
  /\ diffPc = "awaitFirst"
  /\ diffFetch1' = fetch
  /\ diffPc' = "awaitSecond"
  /\ UNCHANGED << injectVars, pairVars, toolVars, diffArgs, diffFetch2, diffOutcome >>

\* Lines 185-192: the environments warned to be "empty or doesn't exist", those
\* whose fetch failed.
DiffWarnings(env1, env2, fetch1, fetch2) ==
  (IF fetch1.state = "failed" THEN << env1 >> ELSE << >>)
  \o (IF fetch2.state = "failed" THEN << env2 >> ELSE << >>)

\* Lines 162-208: the fetch of env2 ends; diff returns the error of two
\* failed fetches, or the comparison.
DiffSecond(fetch) ==
  /\ diffPc = "awaitSecond"
  /\ diffFetch2' = fetch
  /\ diffPc' = "returned"
  /\ diffOutcome' =
       IF diffFetch1.state = "failed" /\ fetch.state = "failed"
         THEN [NoDiffOutcome EXCEPT !.kind = "failed", !.isError = TRUE,
                                    !.text = "Error: Failed to fetch both environments."]
         ELSE [NoDiffOutcome EXCEPT
                 !.kind = "result",
                 !.result = compareSecrets(normalizeEnvName(diffArgs.env1),
                                           normalizeEnvName(diffArgs.env2),
                                           diffFetch1.secrets, fetch.secrets),
                 !.warnings = DiffWarnings(normalizeEnvName(diffArgs.env1),
                                           normalizeEnvName(diffArgs.env2),
                                           diffFetch1, fetch)]
  /\ UNCHANGED << injectVars, pairVars, toolVars, diffArgs, diffFetch1 >>

\* One call of diff; injectRun is not called.
InitDiff ==
  /\ command = << >>
  /\ timeoutArg = [present |-> FALSE, ms |-> 0]
  /\ argv = [present |-> FALSE, list |-> << >>]
  /\ ambient = NoEnv /\ ambientAtCall = NoEnv
  /\ InjectStart
  /\ diffArgs \in [env1 : DiffEnvNames, env2 : DiffEnvNames]
  /\ diffPc = "start"
  /\ diffFetch1 = NoFetch /\ diffFetch2 = NoFetch
  /\ diffOutcome = NoDiffOutcome
  /\ PairIdle
  /\ ToolsIdle

NextDiff ==
  \/ DiffInvoke
  \/ DiffTokenFail
  \/ DiffTokenOk
  \/ \E fetch \in DiffFetches : DiffFirst(fetch)
  \/ \E fetch \in DiffFetches : DiffSecond(fetch)

SpecDiff == InitDiff /\ [][NextDiff]_vars

(***************************************************************************)
(* Two concurrent calls of injectRun.  Every call has its own closure: the  *)
(* const secrets, timeout and child, the let stdout, stderr, stdoutBytes,   *)
(* stderrBytes, the timer and the promise (lines 92-166).  The calls share   *)
(* process.env, the clock and the event loop.                               *)
(***************************************************************************)
\* args.timeout of the two concurrent calls: 1000 ms for the first, absent
\* for the second.
PairTimeouts ==
  [i \in Executions |-> IF i = 1 THEN [present |-> TRUE, ms |-> 1000]
                                 ELSE [present |-> FALSE, ms |-> 0]]

\* The secret maps fetched for a concurrent call: { A: 'abcd' } or { A: 'zz' }
PairSecretMaps ==
  { << [key |-> "A", value |-> SecretAbcd] >>, << [key |-> "A", value |-> SecretZz] >> }

\* 'abcd zz'
ChunkBoth == BufferFrom(SecretAbcd \o << 32 >> \o SecretZz)

\* The chunks the child of a concurrent call may write to stdout or stderr.
PairChunks == { ChunkBoth }

\* How the child of a concurrent call may end.
PairExitCodes == { [signal |-> FALSE, code |-> 2] }

\* The secrets of the call made before, kept for the next call.
ParsedSecretsCached(c, i, s) ==
  IF \E j \in Executions \ {i} : c[j].child # "none"
    THEN c[CHOOSE j \in Executions \ {i} : c[j].child # "none"].secrets
    ELSE s

\* Line 99: const secrets = parseEnvContent(content), of the content fetched
\* for this call.
ParsedSecrets(c, i, s) == s

\* No promise reaction of either call is waiting.
PairEventLoopIdle ==
  \A i \in Executions : ~(calls[i].pc = "running" /\ calls[i].promise.state # "pending")

\* The timers Node holds run in the order they are due: the timer due at
\* `due` runs when no armed timer of either call is due before it.
EarliestTimer(due) ==
  \A j \in Executions :
    /\ calls[j].timer = "armed" => calls[j].timerDue >= due
    /\ calls[j].killTimer = "armed" => calls[j].killDue >= due

\* The data events delivered to both calls.
PairDataEvents == Len(calls[1].delivered) + Len(calls[2].delivered)

\* Lines 84-92 for a command that is present: getToken is called.
CallInvoke(i) ==
  /\ calls[i].pc = "start"
  /\ calls' = [calls EXCEPT ![i].pc = "awaitToken"]
  /\ UNCHANGED << injectVars, diffVars, toolVars, callsNow >>

\* getToken rejects.
CallTokenFail(i) ==
  /\ calls[i].pc = "awaitToken"
  /\ calls' = [calls EXCEPT ![i].pc = "returned",
                            ![i].outcome = Thrown("AuthError", 0)]
  /\ UNCHANGED << injectVars, diffVars, toolVars, callsNow >>

\* Lines 92-98: the token arrives; pullSecrets is called.
CallTokenOk(i) ==
  /\ calls[i].pc = "awaitToken"
  /\ calls' = [calls EXCEPT ![i].pc = "awaitSecrets",
                            ![i].timeout = EffectiveTimeout(calls[i].timeoutArg)]
  /\ UNCHANGED << injectVars, diffVars, toolVars, callsNow >>

\* Line 98: pullSecrets rejects.
CallSecretsFail(i, err) ==
  /\ calls[i].pc = "awaitSecrets"
  /\ calls' = [calls EXCEPT ![i].pc = "returned", ![i].outcome = Thrown(err, 0)]
  /\ UNCHANGED << injectVars, diffVars, toolVars, callsNow >>

\* Lines 98-129: the secrets arrive; the child is spawned with the merged
\* environment and the timer armed.
CallSecretsOk(i, s) ==
  /\ calls[i].pc = "awaitSecrets"
  /\ LET own == ParsedSecrets(calls, i, s) IN
     calls' = [calls EXCEPT ![i].pc = "running",
                            ![i].pulled = s,
                            ![i].secrets = own,
                            ![i].env = MergeEnv(ambient, own),
                            ![i].child = "running",
                            ![i].timer = "armed",
                            ![i].timerDue = callsNow + TimerDelay(calls[i].timeout)]
  /\ UNCHANGED << injectVars, diffVars, toolVars, callsNow >>

\* Lines 131-137: child.stdout.on('data') of call i
CallStdoutData(i, data) ==
  /\ PairEventLoopIdle
  /\ calls[i].child \in {"running", "exited"}
  /\ PairDataEvents < MaxDataEvents
  /\ calls' =
       IF calls[i].stdoutBytes < MAX_OUTPUT_BYTES
         THEN [calls EXCEPT
                 ![i].delivered = Append(@, [stream |-> "stdout", data |-> data]),
                 ![i].stdout = @ \o BufferToString(data),
                 ![i].stdoutBytes = @ + Len(data)]
         ELSE [calls EXCEPT
                 ![i].delivered = Append(@, [stream |-> "stdout", data |-> data])]
  /\ UNCHANGED << injectVars, diffVars, toolVars, callsNow >>

\* Lines 139-144: child.stderr.on('data') of call i
CallStderrData(i, data) ==
  /\ PairEventLoopIdle
  /\ calls[i].child \in {"running", "exited"}
  /\ PairDataEvents < MaxDataEvents
  /\ calls' =
       IF calls[i].stderrBytes < MAX_OUTPUT_BYTES
         THEN [calls EXCEPT
                 ![i].delivered = Append(@, [stream |-> "stderr", data |-> data]),
                 ![i].stderr = @ \o BufferToString(data),
                 ![i].stderrBytes = @ + Len(data)]
         ELSE [calls EXCEPT
                 ![i].delivered = Append(@, [stream |-> "stderr", data |-> data])]
  /\ UNCHANGED << injectVars, diffVars, toolVars, callsNow >>

\* The child of call i ends.
CallChildExit(i, code) ==
  /\ calls[i].child = "running"
  /\ calls' = [calls EXCEPT ![i].child = "exited", ![i].childCode = code]
  /\ UNCHANGED << injectVars, diffVars, toolVars, callsNow >>

\* Lines 149-159 in the closure e of one call.
CallCloseResult(e) ==
  LET stdoutResult == truncateOutput(e.stdout, MAX_OUTPUT_BYTES)
      stderrResult == truncateOutput(e.stderr, MAX_OUTPUT_BYTES)
  IN [exitCode |-> IF e.childCode.signal THEN 1 ELSE e.childCode.code,
      stdout |-> maskSecrets(stdoutResult.text, e.secrets),
      stderr |-> maskSecrets(stderrResult.text, e.secrets),
      stdoutTruncated |-> stdoutResult.truncated \/ e.stdoutBytes >= MAX_OUTPUT_BYTES,
      stderrTruncated |-> stderrResult.truncated \/ e.stderrBytes >= MAX_OUTPUT_BYTES]

\* Lines 145-160: child.on('close') of call i
CallClose(i) ==
  /\ PairEventLoopIdle
  /\ calls[i].child \in {"exited", "failed"}
  /\ calls' = [calls EXCEPT
                 ![i].child = "closed",
                 ![i].timer = ClearTimer(@),
                 ![i].promise = Settle(@, Resolved(CallCloseResult(calls[i])))]
  /\ UNCHANGED << injectVars, diffVars, toolVars, callsNow >>

\* Lines 162-165: child.on('error') of call i, on the tick after its spawn.
CallErrorEvent(i, errno) ==
  /\ PairEventLoopIdle
  /\ calls[i].child = "running"
  /\ calls[i].delivered = << >> /\ calls[i].timer = "armed"
  /\ callsNow + TimerDelay(calls[i].timeout) = calls[i].timerDue
  /\ calls' = [calls EXCEPT
                 ![i].child = "failed",
                 ![i].childCode = [signal |-> FALSE, code |-> errno],
                 ![i].timer = ClearTimer(@),
                 ![i].promise =
                   Settle(@, Rejected(ExecError(SpawnErrorMessage(errno)), 0))]
  /\ UNCHANGED << injectVars, diffVars, toolVars, callsNow >>

\* Lines 124-129: the timeout timer's callback of call i.
CallTimerFire(i) ==
  /\ PairEventLoopIdle
  /\ calls[i].timer = "armed"
  /\ EarliestTimer(calls[i].timerDue)
  /\ callsNow' = Max(callsNow, calls[i].timerDue)
  /\ calls' = [calls EXCEPT
                 ![i].timer = "fired",
                 ![i].kills = Append(@, [signal |-> "SIGTERM", at |-> callsNow',
                                         child |-> calls[i].child]),
                 ![i].killTimer = "armed",
                 ![i].killDue = callsNow' + GRACE_MS,
                 ![i].promise =
                   Settle(@, Rejected("Command timed out", calls[i].timeout))]
  /\ UNCHANGED << injectVars, diffVars, toolVars >>

\* Line 127: the inner timer's callback of call i.
CallKillTimerFire(i) ==
  /\ PairEventLoopIdle
  /\ calls[i].killTimer = "armed"
  /\ EarliestTimer(calls[i].killDue)
  /\ callsNow' = Max(callsNow, calls[i].killDue)
  /\ calls' = [calls EXCEPT
                 ![i].killTimer = "fired",
                 ![i].kills = Append(@, [signal |-> "SIGKILL", at |-> callsNow',
                                         child |-> calls[i].child])]
  /\ UNCHANGED << injectVars, diffVars, toolVars >>

\* Lines 168-184 in the closure e of one call.
CallResponse(e, result) ==
  LET w1 == IF result.stdoutTruncated
              THEN << "stdout was truncated (exceeded 1MB)" >> ELSE << >>
      w2 == IF result.stderrTruncated
              THEN << "stderr was truncated (exceeded 1MB)" >> ELSE << >>
  IN [exitCode |-> result.exitCode,
      stdout |-> result.stdout,
      stderr |-> result.stderr,
      secretsInjected |-> Len(e.secrets),
      hasWarnings |-> result.stdoutTruncated \/ result.stderrTruncated,
      warnings |-> w1 \o w2]

\* Lines 166-194: the await of call i ends.
CallReturn(i) ==
  /\ calls[i].pc = "running"
  /\ calls[i].promise.state # "pending"
  /\ LET e == calls[i] IN
     calls' = [calls EXCEPT
                 ![i].pc = "returned",
                 ![i].outcome =
                   IF e.promise.state = "resolved"
                     THEN [NoOutcome EXCEPT
                             !.kind = "result",
                             !.isError = (e.promise.value.exitCode # 0),
                             !.response = CallResponse(e, e.promise.value)]
                     ELSE Thrown(e.promise.error, e.promise.ms)]
  /\ UNCHANGED << injectVars, diffVars, toolVars, callsNow >>

\* Two calls of injectRun with the command 'ls' are made one after the
\* other, before either has run beyond its validation.
InitPair ==
  /\ command = << >>
  /\ timeoutArg = [present |-> FALSE, ms |-> 0]
  /\ argv = [present |-> FALSE, list |-> << >>]
  /\ ambient \in AmbientEnvs /\ ambientAtCall = ambient
  /\ "HOME" \in DOMAIN ambient
  /\ InjectStart
  /\ DiffIdle
  /\ calls = [i \in Executions |-> NewCall("start", PairTimeouts[i])]
  /\ callsNow = 0
  /\ ToolsIdle

NextPair ==
  \E i \in Executions :
    \/ CallInvoke(i)
    \/ CallTokenFail(i)
    \/ CallTokenOk(i)
    \/ \E err \in {"HTTP 404"} : CallSecretsFail(i, err)
    \/ \E s \in PairSecretMaps : CallSecretsOk(i, s)
    \/ \E data \in PairChunks : CallStdoutData(i, data)
    \/ \E data \in PairChunks : CallStderrData(i, data)
    \/ \E code \in PairExitCodes : CallChildExit(i, code)
    \/ CallClose(i)
    \/ \E errno \in {-2} : CallErrorEvent(i, errno)
    \/ CallTimerFire(i)
    \/ CallKillTimerFire(i)
    \/ CallReturn(i)

SpecPair == InitPair /\ [][NextPair]_vars

(***************************************************************************)
(* keyway_validate: validate                                                *)
(***************************************************************************)
\* 'PORT', one of the names filterNonSecrets drops.
NamePort == << 80, 79, 82, 84 >>

\* Lines 179-197: the names that are no secrets (the one the model uses).
NonSecrets == { NamePort }

\* args.environment: '' or 'production'
ValEnvironments == { << >>, << 112, 114, 111, 100, 117, 99, 116, 105, 111, 110 >> }

\* args.required: absent or empty, ['a'], ['A', 'B'], ['B', 'AB', 'B'] (not
\* sorted, one name twice).
RequiredLists == { << >>, << KeyLowerA >>, << KeyA, KeyB >>, << KeyB, KeyAB, KeyB >> }

\* What scanDirectoryForEnvVars finds under args.path.
DetectedSets == { {}, { NamePort }, { NamePort, KeyA, KeyLowerA } }

\* The calls of validate: autoDetect with every required list and every
\* detected set, and without autoDetect (where nothing is scanned).
ValArgs ==
  { a \in [environment : ValEnvironments, required : RequiredLists,
           autoDetect : BOOLEAN, detected : DetectedSets] :
      ~a.autoDetect => a.detected = {} }

\* The vault of the environment: empty, { A }, { A, B, a }.
ValMaps ==
  { NoEnv,
    [k \in {KeyA} |-> << 49 >>],
    [k \in {KeyA, KeyB, KeyLowerA} |-> IF k = KeyB THEN << >> ELSE << 49 >>] }

\* How pullSecrets and parseEnvContent may end.
ValFetches ==
  { [state |-> "ok", secrets |-> m, error |-> ""] : m \in ValMaps }
  \cup { [state |-> "failed", secrets |-> NoEnv, error |-> "HTTP 404"] }

\* Array.prototype.sort without a comparator, on an array of strings.
RECURSIVE SortStrings(_)
SortStrings(q) ==
  IF q = << >> THEN << >>
  ELSE LET i == CHOOSE i \in 1..Len(q) : \A j \in 1..Len(q) : ~LessKey(q[j], q[i])
       IN << q[i] >> \o SortStrings(SubSeq(q, 1, i - 1) \o SubSeq(q, i + 1, Len(q)))

\* [...new Set(q)]: the first occurrence of every element, in order.
RECURSIVE Dedupe(_)
Dedupe(q) ==
  IF q = << >> THEN << >>
  ELSE LET front == Dedupe(SubSeq(q, 1, Len(q) - 1))
       IN IF \E i \in 1..Len(front) : front[i] = q[Len(q)]
            THEN front ELSE Append(front, q[Len(q)])

\* Lines 178-202: filterNonSecrets
filterNonSecrets(names) == SortedKeys(names \ NonSecrets)

\* Lines 219-226: the required names, with the detected ones when asked.
RequiredSecrets(a) ==
  IF a.autoDetect
    THEN Dedupe(a.required \o filterNonSecrets(a.detected))
    ELSE a.required

\* ((present / required) * 100).toFixed(1), in tenths of a percent.
Coverage(present, required) ==
  IF required > 0 THEN (present * 2000 + required) \div (2 * required) ELSE 1000

NoValidation ==
  [valid |-> FALSE, required |-> << >>, missing |-> << >>, present |-> << >>,
   extra |-> << >>,
   stats |-> [requiredCount |-> 0, presentCount |-> 0, missingCount |-> 0,
              coverage |-> 0]]

\* The result with valid true as soon as one required secret is present.
ValidationResultAnyPresent(requiredSecrets, existingSecrets) ==
  LET existingKeys == DOMAIN existingSecrets
      has(secret) == secret \in existingKeys
      lacks(secret) == secret \notin existingKeys
      present == SelectSeq(requiredSecrets, has)
      missing == SelectSeq(requiredSecrets, lacks)
  IN [valid |-> Len(present) > 0,
      required |-> SortStrings(requiredSecrets),
      missing |-> SortStrings(missing),
      present |-> SortStrings(present),
      extra |-> SortedKeys(existingKeys \ { requiredSecrets[i] : i \in 1..Len(requiredSecrets) }),
      stats |-> [requiredCount |-> Len(requiredSecrets),
                 presentCount |-> Len(present),
                 missingCount |-> Len(missing),
                 coverage |-> Coverage(Len(present), Len(requiredSecrets))]]

\* Lines 249-288: the keys of the vault, the required names sorted into
\* present and missing, the extra keys and the stats.
ValidationResult(requiredSecrets, existingSecrets) ==
  LET existingKeys == DOMAIN existingSecrets
      has(secret) == secret \in existingKeys
      lacks(secret) == secret \notin existingKeys
      present == SelectSeq(requiredSecrets, has)
      missing == SelectSeq(requiredSecrets, lacks)
  IN [valid |-> Len(missing) = 0,
      required |-> SortStrings(requiredSecrets),
      missing |-> SortStrings(missing),
      present |-> SortStrings(present),
      extra |-> SortedKeys(existingKeys \ { requiredSecrets[i] : i \in 1..Len(requiredSecrets) }),
      stats |-> [requiredCount |-> Len(requiredSecrets),
                 presentCount |-> Len(present),
                 missingCount |-> Len(missing),
                 coverage |-> Coverage(Len(present), Len(requiredSecrets))]]

ValError(text) ==
  [kind |-> "error", isError |-> TRUE, text |-> text, result |-> NoValidation]

\* Lines 204-215: the environment is validated, then getToken is called.
ValInvoke ==
  /\ val.pc = "start"
  /\ val' = IF val.args.environment = << >>
              THEN [val EXCEPT !.pc = "returned",
                               !.outcome = ValError("Error: Environment is required")]
              ELSE [val EXCEPT !.pc = "awaitToken"]
  /\ UNCHANGED << injectVars, diffVars, pairVars, gen, vault, setter, req, auth >>

\* getToken rejects: the catch of line 307 returns the error.
ValTokenFail ==
  /\ val.pc = "awaitToken"
  /\ val' = [val EXCEPT !.pc = "returned",
                        !.outcome = ValError("Error validating secrets: AuthError")]
  /\ UNCHANGED << injectVars, diffVars, pairVars, gen, vault, setter, req, auth >>

\* Lines 215-243: the token arrives; the required names are put together,
\* and pullSecrets is called unless there are none.
ValTokenOk ==
  /\ val.pc = "awaitToken"
  /\ LET requiredSecrets == RequiredSecrets(val.args) IN
     val' = IF Len(requiredSecrets) = 0
              THEN [val EXCEPT !.pc = "returned",
                               !.outcome = ValError("Error: No required secrets specified")]
              ELSE [val EXCEPT !.pc = "awaitSecrets",
                               !.requiredSecrets = requiredSecrets]
  /\ UNCHANGED << injectVars, diffVars, pairVars, gen, vault, setter, req, auth >>

\* Lines 241-306: the fetch ends (a failure is caught and leaves the {} of
\* line 241); the result is built and returned.
ValSecrets(fetch) ==
  /\ val.pc = "awaitSecrets"
  /\ val' = [val EXCEPT
               !.pc = "returned",
               !.fetch = fetch,
               !.outcome =
                 [kind |-> "result", isError |-> FALSE, text |-> "",
                  result |-> ValidationResult(val.requiredSecrets, fetch.secrets)]]
  /\ UNCHANGED << injectVars, diffVars, pairVars, gen, vault, setter, req, auth >>

\* One call of validate.
InitValidate ==
  /\ InjectIdle
  /\ DiffIdle
  /\ PairIdle
  /\ gen = NotCalled /\ vault = NoEnv /\ setter = NotCalled
  /\ req = NotCalled
  /\ auth = NotCalled
  /\ \E a \in ValArgs :
       val = [pc |-> "start", args |-> a, requiredSecrets |-> << >>,
              fetch |-> NoFetch,
              outcome |-> [kind |-> "none", isError |-> FALSE, text |-> "",
                           result |-> NoValidation]]

NextValidate ==
  \/ ValInvoke
  \/ ValTokenFail
  \/ ValTokenOk
  \/ \E fetch \in ValFetches : ValSecrets(fetch)

SpecValidate == InitValidate /\ [][NextValidate]_vars

(***************************************************************************)
(* The API client: validateEnvironment, fetchWithTimeout, fetchWithRetry,   *)
(* isRetryableError, handleResponse, pullSecrets, pushSecrets and           *)
(* getSecretValue (src/utils/api.ts).                                       *)
(***************************************************************************)
\* api.ts:9
MAX_RETRIES == 3

\* api.ts:10
RETRY_DELAY_MS == 1000

IsLetter(u) == (u >= 65 /\ u <= 90) \/ (u >= 97 /\ u <= 122)

IsDigit(u) == u >= 48 /\ u <= 57

\* The pattern without its first character class: /^[a-zA-Z0-9_-]*$/
EnvironmentPatternAnyFirst(environment) ==
  \A i \in 1..Len(environment) :
    IsLetter(environment[i]) \/ IsDigit(environment[i]) \/ environment[i] \in {95, 45}

\* Line 341: ENVIRONMENT_PATTERN.test(environment), /^[a-zA-Z][a-zA-Z0-9_-]*$/
EnvironmentPattern(environment) ==
  /\ Len(environment) >= 1
  /\ IsLetter(environment[1])
  /\ \A i \in 2..Len(environment) :
       IsLetter(environment[i]) \/ IsDigit(environment[i]) \/ environment[i] \in {95, 45}

\* new APIError(statusCode, errorCode, message, isRetryable = false)
APIError(statusCode, errorCode, message) ==
  [name |-> "APIError", statusCode |-> statusCode, errorCode |-> errorCode,
   message |-> message, isRetryable |-> FALSE]

\* An Error that is no APIError.
PlainError(message) ==
  [name |-> "Error", statusCode |-> 0, errorCode |-> "", message |-> message,
   isRetryable |-> FALSE]

NoError == [name |-> "none", statusCode |-> 0, errorCode |-> "", message |-> << >>,
            isRetryable |-> FALSE]

\* 'Invalid environment name "'
InvalidEnvironmentText == << 73, 110, 118, 97, 108, 105, 100, 32, 101, 110, 118, 105, 114, 111, 110, 109, 101, 110, 116, 32, 110, 97, 109, 101, 32, 34 >>

\* Lines 347-355: the error validateEnvironment throws, none for a valid name.
validateEnvironment(environment) ==
  IF environment = << >> \/ ~EnvironmentPattern(environment)
    THEN APIError(400, "INVALID_ENVIRONMENT",
                  InvalidEnvironmentText \o environment \o << 34 >>)
    ELSE NoError

\* Every error taken for a retryable one.
isRetryableErrorAlways(error) == TRUE

\* Lines 89-104: isRetryableError
isRetryableError(error) ==
  IF error.name = "APIError"
    THEN error.isRetryable \/ (error.statusCode >= 500 /\ error.statusCode < 600)
    ELSE LET message == ToLower(error.message) IN
         \/ Includes(message, << 110, 101, 116, 119, 111, 114, 107 >>)
         \/ Includes(message, << 101, 99, 111, 110, 110, 114, 101, 115, 101, 116 >>)
         \/ Includes(message, << 101, 99, 111, 110, 110, 114, 101, 102, 117, 115, 101, 100 >>)
         \/ Includes(message, << 116, 105, 109, 101, 111, 117, 116 >>)

\* The errors fetchWithTimeout throws: 'Request timeout after 30s' when the
\* request is aborted (line 128), and what fetch rejects with: 'Network
\* request failed', 'read ECONNRESET', 'connect ECONNREFUSED 127.0.0.1:443',
\* 'fetch failed', 'Invalid URL'.
ErrTimeout == PlainError(<< 82, 101, 113, 117, 101, 115, 116, 32, 116, 105, 109, 101, 111, 117, 116, 32, 97, 102, 116, 101, 114, 32, 51, 48, 115 >>)

ErrNetwork == PlainError(<< 78, 101, 116, 119, 111, 114, 107, 32, 114, 101, 113, 117, 101, 115, 116, 32, 102, 97, 105, 108, 101, 100 >>)

ErrReset == PlainError(<< 114, 101, 97, 100, 32, 69, 67, 79, 78, 78, 82, 69, 83, 69, 84 >>)

ErrRefused == PlainError(<< 99, 111, 110, 110, 101, 99, 116, 32, 69, 67, 79, 78, 78, 82, 69, 70, 85, 83, 69, 68, 32, 49, 50, 55, 46, 48, 46, 48, 46, 49, 58, 52, 52, 51 >>)

ErrFetchFailed == PlainError(<< 102, 101, 116, 99, 104, 32, 102, 97, 105, 108, 101, 100 >>)

ErrInvalidUrl == PlainError(<< 73, 110, 118, 97, 108, 105, 100, 32, 85, 82, 76 >>)

FetchErrorsThrown ==
  { ErrTimeout, ErrNetwork, ErrReset, ErrRefused, ErrFetchFailed, ErrInvalidUrl }

\* The responses of the server: 200 with the data asked for, 200 without
\* data, 404, 500, 503.
Responses ==
  { [status |-> 200, data |-> TRUE], [status |-> 200, data |-> FALSE],
    [status |-> 404, data |-> FALSE], [status |-> 500, data |-> FALSE],
    [status |-> 503, data |-> FALSE] }

NoResponseYet == [status |-> 0, data |-> FALSE]

\* The functions of the client that take an environment.
ApiFunctions == { "pullSecrets", "pushSecrets", "getSecretValue" }

\* environment: '', 'dev', 'Prod-1_x', '1dev', 'de v', '_x'
ApiEnvironments ==
  { << >>, << 100, 101, 118 >>, << 80, 114, 111, 100, 45, 49, 95, 120 >>, << 49, 100, 101, 118 >>, << 100, 101, 32, 118 >>, << 95, 120 >> }

\* Math.pow(2, attempt) for the attempts of the loop.
Pow2(n) == IF n = 0 THEN 1 ELSE IF n = 1 THEN 2 ELSE IF n = 2 THEN 4 ELSE 8

ApiDone(result) ==
  [req EXCEPT !.pc = "done", !.outcome = result]

\* Lines 210-217 (245-247, 311-319): validateEnvironment, then the first
\* attempt of fetchWithRetry.
ApiCall ==
  /\ req.pc = "start"
  /\ LET invalid == validateEnvironment(req.environment) IN
     req' = IF invalid.name # "none"
              THEN ApiDone([kind |-> "thrown", error |-> invalid])
              ELSE [req EXCEPT !.pc = "fetching", !.attempt = 0, !.requests = 1]
  /\ UNCHANGED << injectVars, diffVars, pairVars, val, gen, vault, setter, auth >>

\* Lines 113-134 and 146-148: the fetch of this attempt gives a response;
\* fetchWithRetry returns it.
FetchResponds(response) ==
  /\ req.pc = "fetching"
  /\ req' = [req EXCEPT !.pc = "handling", !.response = response,
                        !.attempts = Append(@, [error |-> NoError, response |-> response])]
  /\ UNCHANGED << injectVars, diffVars, pairVars, val, gen, vault, setter, auth >>

\* Lines 113-134 and 149-156: the fetch of this attempt fails, or is aborted
\* after 30 s; the error is rethrown, or the loop sleeps before the next
\* attempt.
FetchFails(error) ==
  /\ req.pc = "fetching"
  /\ req' =
       IF ~isRetryableError(error) \/ req.attempt = MAX_RETRIES - 1
         THEN [ApiDone([kind |-> "thrown", error |-> error]) EXCEPT
                 !.attempts = Append(@, [error |-> error, response |-> NoResponseYet])]
         ELSE [req EXCEPT
                 !.pc = "sleeping",
                 !.attempts = Append(@, [error |-> error, response |-> NoResponseYet]),
                 !.sleeps = Append(@, RETRY_DELAY_MS * Pow2(req.attempt))]
  /\ UNCHANGED << injectVars, diffVars, pairVars, val, gen, vault, setter, auth >>

\* Lines 146-148, 155: the sleep ends; the next attempt starts.
SleepEnds ==
  /\ req.pc = "sleeping"
  /\ req.attempt + 1 < MAX_RETRIES
  /\ req' = [req EXCEPT !.pc = "fetching", !.attempt = @ + 1, !.requests = @ + 1]
  /\ UNCHANGED << injectVars, diffVars, pairVars, val, gen, vault, setter, auth >>

\* Lines 162-192 and 226-233 (261-268, 327-335): handleResponse and the check
\* of the data.
HandleResponse ==
  /\ req.pc = "handling"
  /\ req' =
       IF req.response.status # 200
         THEN ApiDone([kind |-> "thrown",
                       error |-> APIError(req.response.status, "Error", << >>)])
       ELSE IF ~req.response.data /\ req.fn # "pushSecrets"
         THEN ApiDone([kind |-> "thrown",
                       error |-> APIError(500, "INVALID_RESPONSE", << >>)])
       ELSE ApiDone([kind |-> "returned", error |-> NoError])
  /\ UNCHANGED << injectVars, diffVars, pairVars, val, gen, vault, setter, auth >>

\* One call of pullSecrets, pushSecrets or getSecretValue.
InitApi ==
  /\ InjectIdle
  /\ DiffIdle
  /\ PairIdle
  /\ val = NotCalled
  /\ gen = NotCalled /\ vault = NoEnv /\ setter = NotCalled
  /\ auth = NotCalled
  /\ \E fn \in ApiFunctions, environment \in ApiEnvironments :
       req = [pc |-> "start", fn |-> fn, environment |-> environment,
              attempt |-> 0, requests |-> 0, attempts |-> << >>, sleeps |-> << >>,
              response |-> NoResponseYet,
              outcome |-> [kind |-> "none", error |-> NoError]]

NextApi ==
  \/ ApiCall
  \/ \E response \in Responses : FetchResponds(response)
  \/ \E error \in FetchErrorsThrown : FetchFails(error)
  \/ SleepEnds
  \/ HandleResponse

SpecApi == InitApi /\ [][NextApi]_vars

\* Every fetch settles (it is aborted after 30 s at the latest) and every
\* sleep ends.
SpecApiFair == SpecApi /\ WF_vars(NextApi)

(***************************************************************************)
(* The stored login: getEncryptionKey, decryptToken, isExpired,             *)
(* getStoredAuth and getToken (src/utils/api.ts, lines 376-485).            *)
(***************************************************************************)
\* The clock runs over the first milliseconds of the epoch.
MaxNow == 3

\* '1970-01-01T00:00:00.00'
IsoPrefix == << 49, 57, 55, 48, 45, 48, 49, 45, 48, 49, 84, 48, 48, 58, 48, 48, 58, 48, 48, 46, 48, 48 >>

\* Date.parse(text) for the texts of the model: the time in ms of
\* '1970-01-01T00:00:00.00dZ', and NaN for a text that is no date.
DateParse(text) ==
  IF /\ Len(text) = Len(IsoPrefix) + 2
     /\ MatchAt(text, IsoPrefix, 1)
     /\ IsDigit(text[Len(IsoPrefix) + 1])
     /\ text[Len(IsoPrefix) + 2] = 90
    THEN [isNaN |-> FALSE, ms |-> text[Len(IsoPrefix) + 1] - 48]
    ELSE [isNaN |-> TRUE, ms |-> 0]

\* expiresAt of the stored record: absent, '', 'never',
\* '1970-01-01T00:00:00.001Z', '...002Z', '...003Z'
ExpiresAtValues ==
  { [present |-> FALSE, text |-> << >>],
    [present |-> TRUE, text |-> << >>],
    [present |-> TRUE, text |-> << 110, 101, 118, 101, 114 >>],
    [present |-> TRUE, text |-> IsoPrefix \o << 49, 90 >>],
    [present |-> TRUE, text |-> IsoPrefix \o << 50, 90 >>],
    [present |-> TRUE, text |-> IsoPrefix \o << 51, 90 >> ] }

\* What the CLI left on the disk: the 'auth' entry of the config (absent, '',
\* or a text), the key file (missing, of insecure mode, of a wrong length, or
\* good), the number of ':'-separated parts of the entry, whether it decrypts
\* with the key, and what the decrypted text is as JSON (no JSON, null, or an
\* object with keywayToken).
StoredLogins ==
  [entry : {"absent", "empty", "present"},
   keyFile : {"missing", "insecure", "corrupted", "ok"},
   parts : {2, 3},
   decrypts : BOOLEAN,
   json : {"invalid", "null", "object"},
   expiresAt : ExpiresAtValues]

\* Lines 445-450 with expires < Date.now()
isExpiredStrict(expiresAt, dateNow) ==
  IF ~expiresAt.present \/ expiresAt.text = << >> THEN FALSE
  ELSE LET expires == DateParse(expiresAt.text) IN
       IF expires.isNaN THEN FALSE ELSE expires.ms < dateNow

\* Lines 445-450: isExpired
isExpired(expiresAt, dateNow) ==
  IF ~expiresAt.present \/ expiresAt.text = << >> THEN FALSE
  ELSE LET expires == DateParse(expiresAt.text) IN
       IF expires.isNaN THEN FALSE ELSE expires.ms <= dateNow

AuthThrown(message) == [kind |-> "thrown", message |-> message, token |-> "none"]

\* Lines 389-416, 418-443, 456-476, 482-485: what getToken gives for a stored
\* login at a time.
getToken(login, dateNow) ==
  IF login.entry # "present" THEN AuthThrown("Not logged in")
  ELSE IF login.keyFile = "missing" THEN AuthThrown("Encryption key not found")
  ELSE IF login.keyFile = "insecure"
    THEN AuthThrown("Encryption key file has insecure permissions")
  ELSE IF login.keyFile = "corrupted" THEN AuthThrown("Encryption key file is corrupted")
  ELSE IF login.parts # 3 THEN AuthThrown("Stored token format is invalid")
  ELSE IF ~login.decrypts THEN AuthThrown("Failed to decrypt stored token")
  ELSE IF login.json = "invalid" THEN AuthThrown("Stored token is corrupted")
  ELSE IF login.json = "null" THEN AuthThrown("TypeError")
  ELSE IF isExpired(login.expiresAt, dateNow) THEN AuthThrown("Session expired")
  ELSE [kind |-> "returned", message |-> "", token |-> "keywayToken"]

\* Time passes before the call.
AuthTick ==
  /\ auth.pc = "start"
  /\ auth.now < MaxNow
  /\ auth' = [auth EXCEPT !.now = @ + 1]
  /\ UNCHANGED << injectVars, diffVars, pairVars, val, gen, vault, setter, req >>

\* Lines 482-485: getToken, with getStoredAuth; nothing in them awaits.
AuthGetToken ==
  /\ auth.pc = "start"
  /\ auth' = [auth EXCEPT !.pc = "done", !.outcome = getToken(auth.login, auth.now)]
  /\ UNCHANGED << injectVars, diffVars, pairVars, val, gen, vault, setter, req >>

\* One call of getToken.
InitAuth ==
  /\ InjectIdle
  /\ DiffIdle
  /\ PairIdle
  /\ val = NotCalled
  /\ gen = NotCalled /\ vault = NoEnv /\ setter = NotCalled
  /\ req = NotCalled
  /\ \E login \in StoredLogins :
       auth = [pc |-> "start", login |-> login, now |-> 0,
               outcome |-> [kind |-> "none", message |-> "", token |-> "none"]]

NextAuth ==
  \/ AuthTick
  \/ AuthGetToken

SpecAuth == InitAuth /\ [][NextAuth]_vars

(***************************************************************************)
(* keyway_generate (src/tools/generate.ts) and keyway_set_secret            *)
(* (src/tools/set-secret.ts), working on the same vault.                    *)
(***************************************************************************)
\* Lines 24-27
CHARSET_ALPHA == << 97, 98, 99, 100, 101, 102, 103, 104, 105, 106, 107, 108, 109, 110, 111, 112, 113, 114, 115, 116, 117, 118, 119, 120, 121, 122, 65, 66, 67, 68, 69, 70, 71, 72, 73, 74, 75, 76, 77, 78, 79, 80, 81, 82, 83, 84, 85, 86, 87, 88, 89, 90 >>

CHARSET_NUMERIC == << 48, 49, 50, 51, 52, 53, 54, 55, 56, 57 >>

CHARSET_SPECIAL == << 33, 64, 35, 36, 37, 94, 38, 42, 40, 41, 95, 43, 45, 61, 91, 93, 123, 125, 124, 59, 58, 44, 46, 60, 62, 63 >>

CHARSET_ALPHANUMERIC == CHARSET_ALPHA \o CHARSET_NUMERIC

\* What randomBytes gives, as far as a call reads it: the bytes that make
\* 'aB1!cdefwxyz...', the bytes that make 'aB1!****wxyz...', and zeros.
RandomDraws ==
  { << 0, 27, 53, 62, 2, 3, 4, 5, 22, 23, 24, 25, 42, 59, 64, 10, 37, 12, 54, 15, 51, 23, 61, 65, 7, 32, 57, 68, 19, 50, 20, 60 >>,
    << 0, 27, 53, 62, 69, 69, 69, 69, 22, 23, 24, 25, 42, 59, 64, 10, 37, 12, 54, 15, 51, 23, 61, 65, 7, 32, 57, 68, 19, 50, 20, 60 >>,
    [i \in 1..32 |-> 0] }

\* randomBytes(n) of a draw
randomBytes(draw, n) == SubSeq(draw, 1, n)

\* Lines 32-39: randomString
randomString(draw, length, charset) ==
  LET bytes == randomBytes(draw, length) IN
  [i \in 1..length |-> charset[(bytes[i] % Len(charset)) + 1]]

InCharset(text, charset) ==
  \E i \in 1..Len(text) : \E j \in 1..Len(charset) : text[i] = charset[j]

\* Lines 44-65: the password generatePassword makes of a draw, and whether it
\* keeps it (it draws again otherwise).
generatePassword(draw, length) ==
  randomString(draw, Max(length, 12), CHARSET_ALPHANUMERIC \o CHARSET_SPECIAL)

PasswordKept(password) ==
  /\ \E i \in 1..Len(password) : password[i] >= 97 /\ password[i] <= 122
  /\ \E i \in 1..Len(password) : password[i] >= 65 /\ password[i] <= 90
  /\ \E i \in 1..Len(password) : IsDigit(password[i])
  /\ InCharset(password, CHARSET_SPECIAL)

HexLower(n) == IF n < 10 THEN 48 + n ELSE 87 + n

\* buffer.toString('hex')
HexEncode(b) ==
  [i \in 1..(2 * Len(b)) |->
     IF i % 2 = 1 THEN HexLower(b[(i + 1) \div 2] \div 16) ELSE HexLower(b[i \div 2] % 16)]

\* buffer.toString('base64url'): '-' and '_' for '+' and '/', no padding.
Base64Url(b) ==
  LET text == Base64From(b, 1)
      kept == SelectSeq(text, LAMBDA u : u # 61)
  IN  [i \in 1..Len(kept) |->
         IF kept[i] = 43 THEN 45 ELSE IF kept[i] = 47 THEN 95 ELSE kept[i]]

\* randomUUID(): 16 random bytes with the version (4) and variant bits set,
\* in hex, grouped 8-4-4-4-12.
randomUUID(draw) ==
  LET b == [i \in 1..16 |->
              IF i = 7 THEN 64 + (draw[i] % 16)
              ELSE IF i = 9 THEN 128 + (draw[i] % 64)
              ELSE draw[i]]
      h == HexEncode(b)
  IN  SubSeq(h, 1, 8) \o << 45 >> \o SubSeq(h, 9, 12) \o << 45 >> \o SubSeq(h, 13, 16)
        \o << 45 >> \o SubSeq(h, 17, 20) \o << 45 >> \o SubSeq(h, 21, 32)

TypePassword == << 112, 97, 115, 115, 119, 111, 114, 100 >>

TypeUuid == << 117, 117, 105, 100 >>

TypeApiKey == << 97, 112, 105, 45, 107, 101, 121 >>

TypeJwtSecret == << 106, 119, 116, 45, 115, 101, 99, 114, 101, 116 >>

TypeHex == << 104, 101, 120 >>

TypeBase64 == << 98, 97, 115, 101, 54, 52 >>

\* Line 146: validTypes
validTypes == { TypePassword, TypeUuid, TypeApiKey, TypeJwtSecret, TypeHex, TypeBase64 }

\* Lines 70-101: generateSecret
generateSecret(type, length, draw) ==
  IF type = TypeUuid THEN randomUUID(draw)
  ELSE IF type = TypeApiKey
    THEN << 107, 101, 121, 95 >> \o randomString(draw, length, CHARSET_ALPHANUMERIC)
  ELSE IF type = TypeJwtSecret THEN Base64Url(randomBytes(draw, Max(length, 32)))
  ELSE IF type = TypeHex
    THEN SubSeq(HexEncode(randomBytes(draw, (length + 1) \div 2)), 1, length)
  ELSE IF type = TypeBase64
    THEN SubSeq(Base64From(randomBytes(draw, (length * 3 + 3) \div 4), 1), 1, length)
  ELSE generatePassword(draw, length)

Stars(n) == [i \in 1..n |-> 42]

\* Lines 106-111: maskSecret
maskSecret(value) ==
  IF Len(value) <= 8 THEN Stars(Len(value))
  ELSE SubSeq(value, 1, 4) \o Stars(Len(value) - 8)
         \o SubSeq(value, Len(value) - 3, Len(value))

\* Lines 116-118 (set-secret.ts:12): /^[A-Z][A-Z0-9_]*$/
isValidSecretName(name) ==
  /\ Len(name) >= 1
  /\ name[1] >= 65 /\ name[1] <= 90
  /\ \A i \in 2..Len(name) :
       (name[i] >= 65 /\ name[i] <= 90) \/ IsDigit(name[i]) \/ name[i] = 95

\* JSON.stringify of a string: quoted, with '"' and '\' escaped: a '\' is put
\* before each of them.
JsonEscape(text) ==
  LET spaced == [p \in 1..(2 * Len(text)) |->
                   IF p % 2 = 0 THEN text[p \div 2]
                   ELSE IF text[(p + 1) \div 2] \in {34, 92} THEN 92 ELSE -1]
  IN  SelectSeq(spaced, LAMBDA u : u # -1)

JsonString(text) == << 34 >> \o JsonEscape(text) \o << 34 >>

\* 'created' / 'updated'
ActionText(isUpdate) == IF isUpdate THEN << 117, 112, 100, 97, 116, 101, 100 >> ELSE << 99, 114, 101, 97, 116, 101, 100 >>

\* getRepository() of the working directory: 'owner/repo'
Repository == << 111, 119, 110, 101, 114, 47, 114, 101, 112, 111 >>

\* Lines 190-203: JSON.stringify(response, null, 2)
GenerateResponse(name, type, secretValue, isUpdate, environment) ==
  << 123, 10, 32, 32, 34, 115, 117, 99, 99, 101, 115, 115, 34, 58, 32, 116, 114, 117, 101, 44, 10, 32, 32, 34, 97, 99, 116, 105, 111, 110, 34, 58, 32 >> \o JsonString(ActionText(isUpdate))
    \o << 44, 10, 32, 32, 34, 110, 97, 109, 101, 34, 58, 32 >> \o JsonString(name)
    \o << 44, 10, 32, 32, 34, 116, 121, 112, 101, 34, 58, 32 >> \o JsonString(type)
    \o << 44, 10, 32, 32, 34, 108, 101, 110, 103, 116, 104, 34, 58, 32 >> \o Digits(Len(secretValue))
    \o << 44, 10, 32, 32, 34, 112, 114, 101, 118, 105, 101, 119, 34, 58, 32 >> \o JsonString(maskSecret(secretValue))
    \o << 44, 10, 32, 32, 34, 101, 110, 118, 105, 114, 111, 110, 109, 101, 110, 116, 34, 58, 32 >> \o JsonString(environment)
    \o << 44, 10, 32, 32, 34, 114, 101, 112, 111, 115, 105, 116, 111, 114, 121, 34, 58, 32 >> \o JsonString(Repository)
    \o << 44, 10, 32, 32, 34, 109, 101, 115, 115, 97, 103, 101, 34, 58, 32 >>
    \o JsonString(<< 83, 101, 99, 114, 101, 116, 32, 34 >> \o name \o << 34, 32 >> \o ActionText(isUpdate)
                    \o << 32, 119, 105, 116, 104, 32, 97, 32, 115, 101, 99, 117, 114, 101, 32 >> \o type \o << 32, 118, 97, 108, 117, 101, 46, 32, 84, 104, 101, 32, 97, 99, 116, 117, 97, 108, 32, 118, 97, 108, 117, 101, 32, 105, 115, 32, 115, 116, 111, 114, 101, 100, 32, 105, 110, 32, 75, 101, 121, 119, 97, 121, 32, 97, 110, 100, 32, 119, 97, 115, 32, 110, 101, 118, 101, 114, 32, 101, 120, 112, 111, 115, 101, 100, 32, 105, 110, 32, 116, 104, 105, 115, 32, 99, 111, 110, 118, 101, 114, 115, 97, 116, 105, 111, 110, 46 >>)
    \o << 10, 125 >>

EnvDevelopment == << 100, 101, 118, 101, 108, 111, 112, 109, 101, 110, 116 >>

Absent == [present |-> FALSE, v |-> << >>]

Given(v) == [present |-> TRUE, v |-> v]

AbsentLength == [present |-> FALSE, v |-> 0]

\* The arguments of generate: every type with the lengths 8, 9 and 12 for the
\* name 'A'; the defaults; and the calls its validation turns down: no name,
\* the name 'a', the type 'rsa', the lengths 7 and 257, and one call for the
\* environment '1dev'.
GenArgs ==
  [name : {KeyA}, type : {Given(t) : t \in validTypes},
   length : {Given(8), Given(9), Given(12)}, environment : {Absent}]
  \cup
  { [name |-> KeyA, type |-> Absent, length |-> AbsentLength, environment |-> Absent],
    [name |-> << >>, type |-> Absent, length |-> AbsentLength, environment |-> Absent],
    [name |-> KeyLowerA, type |-> Absent, length |-> AbsentLength, environment |-> Absent],
    [name |-> KeyA, type |-> Given(<< 114, 115, 97 >>), length |-> AbsentLength, environment |-> Absent],
    [name |-> KeyA, type |-> Absent, length |-> Given(7), environment |-> Absent],
    [name |-> KeyA, type |-> Absent, length |-> Given(257), environment |-> Absent],
    [name |-> KeyA, type |-> Given(TypeHex), length |-> Given(8),
     environment |-> Given(<< 49, 100, 101, 118 >>)] }

\* Line 121: the defaults
GenType(a) == IF a.type.present THEN a.type.v ELSE TypePassword

GenLength(a) == IF a.length.present THEN a.length.v ELSE 32

GenEnvironment(a) == IF a.environment.present THEN a.environment.v ELSE EnvDevelopment

\* The vault of the environment before the calls: empty, or
\* { A: 'old', B: 'b0' }.
Vaults ==
  { NoEnv,
    [k \in {KeyA, KeyB} |-> IF k = KeyA THEN << 111, 108, 100 >> ELSE << 98, 48 >>] }

\* The arguments of the set_secret call: B = 'b1', and the name 'b'.
SetArgs ==
  { [name |-> KeyB, value |-> << 98, 49 >>],
    [name |-> << 98 >>, value |-> << 98, 49 >>] }

\* The server's push: the keys given are created or updated, the others stay.
Upsert(v, given) ==
  [k \in DOMAIN v \cup DOMAIN given |-> IF k \in DOMAIN given THEN given[k] ELSE v[k]]

NoText == [kind |-> "none", isError |-> FALSE, text |-> << >>]

GenError(text) == [kind |-> "result", isError |-> TRUE, text |-> text]

GenDone(result) == [gen EXCEPT !.pc = "done", !.outcome = result]

\* Lines 120-163: the validation of the arguments.
GenInvoke ==
  /\ gen.pc = "start"
  /\ LET a == gen.args IN
     gen' =
       IF a.name = << >> THEN GenDone(GenError(<< 69, 114, 114, 111, 114, 58, 32, 83, 101, 99, 114, 101, 116, 32, 110, 97, 109, 101, 32, 105, 115, 32, 114, 101, 113, 117, 105, 114, 101, 100 >>))
       ELSE IF ~isValidSecretName(a.name)
         THEN GenDone(GenError(<< 69, 114, 114, 111, 114, 58, 32, 73, 110, 118, 97, 108, 105, 100, 32, 115, 101, 99, 114, 101, 116, 32, 110, 97, 109, 101, 32, 34 >> \o a.name \o << 34, 46, 32, 77, 117, 115, 116, 32, 98, 101, 32, 85, 80, 80, 69, 82, 67, 65, 83, 69, 95, 87, 73, 84, 72, 95, 85, 78, 68, 69, 82, 83, 67, 79, 82, 69, 83, 32, 40, 101, 46, 103, 46, 44, 32, 68, 65, 84, 65, 66, 65, 83, 69, 95, 85, 82, 76, 44, 32, 65, 80, 73, 95, 75, 69, 89, 41 >>))
       ELSE IF GenType(a) \notin validTypes
         THEN GenDone(GenError(<< 69, 114, 114, 111, 114, 58, 32, 73, 110, 118, 97, 108, 105, 100, 32, 116, 121, 112, 101, 32, 34 >> \o GenType(a) \o << 34, 46, 32, 86, 97, 108, 105, 100, 32, 116, 121, 112, 101, 115, 58, 32, 112, 97, 115, 115, 119, 111, 114, 100, 44, 32, 117, 117, 105, 100, 44, 32, 97, 112, 105, 45, 107, 101, 121, 44, 32, 106, 119, 116, 45, 115, 101, 99, 114, 101, 116, 44, 32, 104, 101, 120, 44, 32, 98, 97, 115, 101, 54, 52 >>))
       ELSE IF GenLength(a) < 8 \/ GenLength(a) > 256
         THEN GenDone(GenError(<< 69, 114, 114, 111, 114, 58, 32, 76, 101, 110, 103, 116, 104, 32, 109, 117, 115, 116, 32, 98, 101, 32, 98, 101, 116, 119, 101, 101, 110, 32, 56, 32, 97, 110, 100, 32, 50, 53, 54 >>))
       ELSE [gen EXCEPT !.pc = "token"]
  /\ UNCHANGED << injectVars, diffVars, pairVars, val, vault, setter, req, auth >>

\* Lines 165-166, 206-212: getToken throws.
GenTokenFail ==
  /\ gen.pc = "token"
  /\ gen' = GenDone(GenError(<< 69, 114, 114, 111, 114, 32, 103, 101, 110, 101, 114, 97, 116, 105, 110, 103, 32, 115, 101, 99, 114, 101, 116, 58, 32 >> \o << 78, 111, 116, 32, 108, 111, 103, 103, 101, 100, 32, 105, 110, 46, 32, 82, 117, 110, 32, 34, 107, 101, 121, 119, 97, 121, 32, 108, 111, 103, 105, 110, 34, 32, 116, 111, 32, 97, 117, 116, 104, 101, 110, 116, 105, 99, 97, 116, 101, 46 >>))
  /\ UNCHANGED << injectVars, diffVars, pairVars, val, vault, setter, req, auth >>

\* Lines 165-176: getToken gives the token; the secret is generated from what
\* randomBytes gives (for a password: the draw generatePassword keeps) and
\* pullSecrets is called.
GenTokenOk(draw) ==
  /\ gen.pc = "token"
  /\ LET a == gen.args
         secretValue == generateSecret(GenType(a), GenLength(a), draw)
     IN  /\ GenType(a) = TypePassword => PasswordKept(secretValue)
         /\ gen' = [gen EXCEPT !.pc = "pull", !.secretValue = secretValue]
  /\ UNCHANGED << injectVars, diffVars, pairVars, val, vault, setter, req, auth >>

\* Lines 173-188: pullSecrets answers with the vault's content, or fails (an
\* invalid environment name always fails) and leaves the empty map; the name
\* is set in the map and pushSecrets is called with the whole map.
GenPull(ok) ==
  /\ gen.pc = "pull"
  /\ ok => validateEnvironment(GenEnvironment(gen.args)) = NoError
  /\ LET existingSecrets == IF ok THEN vault ELSE NoEnv
         name == gen.args.name
     IN  gen' = [gen EXCEPT
                   !.pc = "push",
                   !.pulled = existingSecrets,
                   !.isUpdate = HasProperty(existingSecrets, name),
                   !.pushed = Upsert(existingSecrets, [k \in {name} |-> gen.secretValue])]
  /\ UNCHANGED << injectVars, diffVars, pairVars, val, vault, setter, req, auth >>

\* Lines 188-205: the server stores the pushed map and generate returns its
\* response.
GenPushOk ==
  /\ gen.pc = "push"
  /\ validateEnvironment(GenEnvironment(gen.args)) = NoError
  /\ vault' = Upsert(vault, gen.pushed)
  /\ LET a == gen.args IN
     gen' = GenDone([kind |-> "result", isError |-> FALSE,
                     text |-> GenerateResponse(a.name, GenType(a), gen.secretValue,
                                               gen.isUpdate, GenEnvironment(a))])
  /\ UNCHANGED << injectVars, diffVars, pairVars, val, setter, req, auth >>

\* Lines 188, 206-212: pushSecrets throws.
GenPushFail ==
  /\ gen.pc = "push"
  /\ gen' = GenDone(GenError(
              << 69, 114, 114, 111, 114, 32, 103, 101, 110, 101, 114, 97, 116, 105, 110, 103, 32, 115, 101, 99, 114, 101, 116, 58, 32 >> \o
              (IF validateEnvironment(GenEnvironment(gen.args)) = NoError
                 THEN ErrFetchFailed.message
                 ELSE validateEnvironment(GenEnvironment(gen.args)).message)))
  /\ UNCHANGED << injectVars, diffVars, pairVars, val, vault, setter, req, auth >>

\* set-secret.ts:20-32: the name is checked, getToken is awaited.
SetInvoke ==
  /\ setter.pc = "start"
  /\ setter' = IF ~isValidSecretName(setter.args.name)
                 THEN [setter EXCEPT !.pc = "done", !.outcome = "invalid"]
                 ELSE [setter EXCEPT !.pc = "token"]
  /\ UNCHANGED << injectVars, diffVars, pairVars, val, gen, vault, req, auth >>

\* set-secret.ts:32-36: getToken gives the token and pushSecrets is called
\* with the one name, or getToken throws and so does setSecret.
SetToken(ok) ==
  /\ setter.pc = "token"
  /\ setter' = IF ok THEN [setter EXCEPT !.pc = "push"]
                     ELSE [setter EXCEPT !.pc = "done", !.outcome = "thrown"]
  /\ UNCHANGED << injectVars, diffVars, pairVars, val, gen, vault, req, auth >>

\* set-secret.ts:36-47: the server stores the one secret, or the push fails.
SetPush(ok) ==
  /\ setter.pc = "push"
  /\ vault' = IF ok THEN Upsert(vault, [k \in {setter.args.name} |-> setter.args.value])
                    ELSE vault
  /\ setter' = [setter EXCEPT !.pc = "done",
                              !.outcome = IF ok THEN "stored" ELSE "thrown",
                              !.during = gen.pc]
  /\ UNCHANGED << injectVars, diffVars, pairVars, val, gen, req, auth >>

\* One call of generate and one of set_secret on the same environment.
InitGenerate ==
  /\ InjectIdle
  /\ DiffIdle
  /\ PairIdle
  /\ val = NotCalled
  /\ req = NotCalled
  /\ auth = NotCalled
  /\ vault \in Vaults
  /\ \E a \in GenArgs :
       gen = [pc |-> "start", args |-> a, secretValue |-> << >>, pulled |-> NoEnv,
              isUpdate |-> FALSE, pushed |-> NoEnv, outcome |-> NoText]
  /\ \E a \in SetArgs :
       setter = [pc |-> "start", args |-> a, outcome |-> "none", during |-> "none"]

NextGenerate ==
  \/ GenInvoke
  \/ GenTokenFail
  \/ \E draw \in RandomDraws : GenTokenOk(draw)
  \/ \E ok \in BOOLEAN : GenPull(ok)
  \/ GenPushOk
  \/ GenPushFail
  \/ SetInvoke
  \/ \E ok \in BOOLEAN : SetToken(ok)
  \/ \E ok \in BOOLEAN : SetPush(ok)

SpecGenerate == InitGenerate /\ [][NextGenerate]_vars

(***************************************************************************)
(* Properties                                                               *)
(***************************************************************************)
\* injectRun returned the response of a finished child.
HasResult == outcome.kind = "result"

RawText(stream) == IF stream = "stdout" THEN stdout ELSE stderr

RawBytes(stream) == IF stream = "stdout" THEN stdoutBytes ELSE stderrBytes

Returned(stream) ==
  IF stream = "stdout" THEN outcome.response.stdout ELSE outcome.response.stderr

Streams == {"stdout", "stderr"}

\* The text truncateOutput keeps of a captured stream (what maskSecrets gets).
Kept(stream) == truncateOutput(RawText(stream), MAX_OUTPUT_BYTES).text

SecretValues == { secrets[i].value : i \in 1..Len(secrets) }

HasStar(v) == \E i \in 1..Len(v) : v[i] = 42

\* A value no occurrence of which can overlap a marker: it holds no '*' and
\* is not a part of 'REDACTED'.
ClearOfMarker(v) == ~HasStar(v) /\ ~Includes(REDACTED, v)

\* C1 as stated: for every execution that returns a result and every
\* non-empty secret value v, if v occurs in the raw captured stdout or stderr
\* then v does not occur in the returned stdout/stderr and the marker
\* ***REDACTED*** occurs instead.
C1_Original ==
  HasResult =>
    \A v \in SecretValues : \A st \in Streams :
      (v # << >> /\ Includes(RawText(st), v)) =>
        /\ ~Includes(Returned("stdout"), v)
        /\ ~Includes(Returned("stderr"), v)
        /\ Includes(Returned(st), REDACTED)

\* C1 amended: for every execution that returns a result and every non-empty
\* secret value v: if v occurs in the text truncateOutput keeps of a stream,
\* the marker occurs in the returned text of that stream; and if v holds no
\* '*' and is not a part of 'REDACTED', v occurs nowhere in the returned
\* stdout/stderr.
C1_SecretsRedacted ==
  HasResult =>
    \A v \in SecretValues : \A st \in Streams :
      v # << >> =>
        /\ Includes(Kept(st), v) => Includes(Returned(st), REDACTED)
        /\ ClearOfMarker(v) => ~Includes(Returned(st), v)

\* C1 witness: a returned result whose raw stdout held a secret value that
\* the returned stdout shows as the marker.
C1_Witness ==
  /\ HasResult
  /\ \E v \in SecretValues :
       /\ v # << >> /\ ClearOfMarker(v)
       /\ Includes(stdout, v)
       /\ ~Includes(Returned("stdout"), v)
       /\ Includes(Returned("stdout"), REDACTED)

\* The encoded forms maskSecrets looks for (none when the encoding throws).
UrlForms(v) ==
  IF EncodeURIComponent(v) = URIError THEN {} ELSE { EncodeURIComponent(v) }

EncodedForms(v) == UrlForms(v) \cup { Base64Encode(v) }

\* C2 as stated: for every secret value of length >= 4, neither its
\* URL-percent-encoded form nor its base64 form occurs in the returned
\* stdout/stderr (an encoding that throws for one secret not preventing the
\* redaction of the others).
C2_Original ==
  HasResult =>
    \A v \in SecretValues : \A st \in Streams :
      Len(v) >= 4 => \A f \in EncodedForms(v) : ~Includes(Returned(st), f)

\* C2 amended: for every secret value of length >= 4 that holds no '*' and
\* is not a part of 'REDACTED', neither its URL-percent-encoded form nor its
\* base64 form occurs in the returned stdout/stderr; when encodeURIComponent
\* throws for a secret, its base64 form is redacted all the same, and so are
\* the other secrets.
C2_EncodedFormsRedacted ==
  HasResult =>
    \A v \in SecretValues : \A st \in Streams :
      (Len(v) >= 4 /\ ClearOfMarker(v)) =>
        \A f \in EncodedForms(v) : ~Includes(Returned(st), f)

\* C2 witness: a returned result for a secret on which encodeURIComponent
\* throws, whose base64 form was in the raw stdout and is not in the returned
\* stdout, beside a secret whose URL form was redacted in another run.
C2_Witness ==
  /\ HasResult
  /\ \E v \in SecretValues :
       /\ Len(v) >= 4
       /\ \/ /\ EncodeURIComponent(v) = URIError
             /\ Includes(stdout, Base64Encode(v))
             /\ ~Includes(Returned("stdout"), Base64Encode(v))
          \/ /\ EncodeURIComponent(v) \notin {URIError, v}
             /\ Includes(stderr, EncodeURIComponent(v))
             /\ Includes(stderr, Base64Encode(v))
             /\ ~Includes(Returned("stderr"), EncodeURIComponent(v))

\* C3: when the command is empty or white space only, injectRun returns the
\* error result 'Error: command is required' (isError true) and never reads
\* the token, calls the secret source or spawns a process.
C3_EmptyCommandRejected ==
  (\A i \in 1..Len(command) : IsWhiteSpace(command[i])) =>
    /\ tokenReads = 0 /\ fetchCalls = 0 /\ spawns = 0
    /\ child = "none"
    /\ pc \in {"start", "returned"}
    /\ pc = "returned" =>
         /\ outcome.kind = "invalid"
         /\ outcome.isError
         /\ outcome.text = "Error: command is required"

\* C3 witness: a white-space-only command has been rejected.
C3_Witness ==
  /\ command # << >>
  /\ \A i \in 1..Len(command) : IsWhiteSpace(command[i])
  /\ pc = "returned"
  /\ outcome.kind = "invalid"

C6_Original ==
  timer # "unset" =>
    timeout = IF timeoutArg.present
                THEN Min(timeoutArg.ms, DEFAULT_TIMEOUT_MS)
                ELSE DEFAULT_TIMEOUT_MS

\* The longest chunk the child writes in this model.
MaxChunkBytes == CHOOSE n \in { Len(c) : c \in Chunks } : \A c \in Chunks : Len(c) <= n

\* C7 as stated: in every reachable state each capture buffer holds at most
\* MAX_OUTPUT_BYTES bytes.
C7_Original ==
  \A st \in Streams :
    RawBytes(st) <= MAX_OUTPUT_BYTES /\ ByteLength(RawText(st)) <= MAX_OUTPUT_BYTES

\* C7 amended: a chunk is appended whole whenever the byte count before it is
\* below the bound, so the count of a buffer stays below the bound plus the
\* size of the largest chunk (not below the bound itself); the captured
\* string holds at most one code unit per counted byte; and data is discarded
\* only once the count has reached the bound.
C7_CaptureBounded ==
  \A st \in Streams :
    /\ RawBytes(st) < MAX_OUTPUT_BYTES + MaxChunkBytes
    /\ Len(RawText(st)) <= RawBytes(st)
    /\ RawBytes(st) <= written[st]
    /\ RawBytes(st) < written[st] => RawBytes(st) >= MAX_OUTPUT_BYTES

\* C7 witness: stdout went over the bound with one chunk and the chunk after
\* it was discarded.
C7_Witness ==
  /\ stdoutBytes > MAX_OUTPUT_BYTES
  /\ written.stdout > stdoutBytes

Warning(st) ==
  IF st = "stdout" THEN "stdout was truncated (exceeded 1MB)"
  ELSE "stderr was truncated (exceeded 1MB)"

Warned(st) ==
  \E i \in 1..Len(outcome.response.warnings) : outcome.response.warnings[i] = Warning(st)

\* C8 as stated: if the child wrote more than MAX_OUTPUT_BYTES to a stream,
\* the returned text of the stream ends with the truncation notice and the
\* warnings hold the stream's warning.
C8_Original ==
  HasResult =>
    \A st \in Streams :
      written[st] > MAX_OUTPUT_BYTES =>
        EndsWith(Returned(st), TRUNCATION_MESSAGE) /\ Warned(st)

\* Some data of the stream was dropped at the capture bound or cut by
\* truncateOutput.
DataLost(st) ==
  \/ written[st] > RawBytes(st)
  \/ truncateOutput(RawText(st), MAX_OUTPUT_BYTES).truncated

\* C9 as stated: the warnings hold a stream's warning exactly when some of its
\* data was lost; the field is absent when neither stream lost data, and
\* stdout's warning comes first.
C9_Original ==
  HasResult =>
    /\ \A st \in Streams : Warned(st) <=> DataLost(st)
    /\ outcome.response.hasWarnings <=> (\E st \in Streams : DataLost(st))
    /\ Len(outcome.response.warnings) = 2 =>
         outcome.response.warnings[1] = Warning("stdout")

\* C10 as stated: the text truncateOutput returns for a well-formed captured
\* text is well formed: no surrogate pair is split.
C10_Original ==
  \A st \in Streams :
    WellFormed(RawText(st)) => WellFormed(Kept(st))

\* C11: when the close of a started child is the first event (it comes before
\* the timeout), the call returns a result and does not throw, whatever the
\* exit code: exitCode is the child's exit code, or 1 when the child was ended
\* by a signal; isError is true exactly when exitCode is not 0; stdout and
\* stderr are the captured texts truncated and then masked.
C11_CloseYieldsResult ==
  (firstEvent = "close" /\ pc = "returned") =>
    /\ outcome.kind = "result"
    /\ outcome.error = "none"
    /\ outcome.response.exitCode = IF childCode.signal THEN 1 ELSE childCode.code
    /\ outcome.isError <=> (outcome.response.exitCode # 0)
    /\ \A st \in Streams : Returned(st) = maskSecrets(Kept(st), secrets)

\* C11 witness: a child ended by a signal closed before the timeout, and the
\* call returned a result with exitCode 1 and isError true.
C11_Witness ==
  /\ firstEvent = "close" /\ pc = "returned"
  /\ childCode.signal
  /\ outcome.kind = "result"
  /\ outcome.response.exitCode = 1
  /\ outcome.isError

C13_FetchBeforeSpawn ==
  /\ (spawns > 0 \/ child # "none" \/ spawned # NoSpawn) => fetched = "ok"
  /\ fetched \in FetchErrors =>
       /\ spawns = 0 /\ child = "none" /\ spawned = NoSpawn
       /\ timer = "unset"
       /\ pc = "returned"
       /\ outcome = Thrown(fetched, 0)

\* C13 witness: the fetch failed with the request's timeout and the call
\* threw that error without a spawn.
C13_Witness ==
  /\ fetched = "Request timeout after 30s"
  /\ outcome.kind = "thrown" /\ outcome.error = fetched
  /\ fetchCalls = 1 /\ spawns = 0

SecretNames == { secrets[i].key : i \in 1..Len(secrets) }

NonEmptySecrets == { i \in 1..Len(secrets) : secrets[i].value # << >> }

\* C14 as stated: secretsInjected is the number of secrets whose value is not
\* empty.
C14_Original ==
  HasResult => outcome.response.secretsInjected = Cardinality(NonEmptySecrets)

\* C14 amended: secretsInjected is the number of entries of the secret map,
\* those with an empty value included: the number of names the child's
\* environment got from the map; it is 0 for an empty map.
C14_InjectedCountsEntries ==
  HasResult =>
    /\ outcome.response.secretsInjected = Cardinality(SecretNames)
    /\ SecretNames \subseteq DOMAIN spawned.env
    /\ secrets = << >> => outcome.response.secretsInjected = 0

\* C14 witness: a result for a map of two secrets, one with an empty value,
\* reports 2.
C14_Witness ==
  /\ HasResult
  /\ Cardinality(NonEmptySecrets) = 1
  /\ outcome.response.secretsInjected = 2

\* No secret value and no encoded form of a secret of length >= 4 occurs in
\* the text.
NothingToMask(text) ==
  \A v \in SecretValues :
    v # << >> =>
      /\ ~Includes(text, v)
      /\ Len(v) >= 4 => \A f \in EncodedForms(v) : ~Includes(text, f)

\* C15: maskSecrets returns the text unchanged whenever the text holds no
\* non-empty secret value and no URL or base64 form of a secret of length
\* >= 4; with an empty secret map the text is always returned unchanged.
C15_NothingToMaskNoChange ==
  HasResult =>
    \A st \in Streams :
      /\ NothingToMask(Kept(st)) => Returned(st) = Kept(st)
      /\ secrets = << >> => Returned(st) = Kept(st)

\* C15 witness: a result for a map with a secret and an empty value whose
\* captured stdout, not empty, holds nothing to mask and is returned as it is.
C15_Witness ==
  /\ HasResult
  /\ \E v \in SecretValues : v # << >>
  /\ << >> \in SecretValues
  /\ stdout # << >>
  /\ NothingToMask(Kept("stdout"))
  /\ Returned("stdout") = Kept("stdout")

\* The secrets in the opposite order of iteration.
Reversed(s) == [i \in 1..Len(s) |-> s[Len(s) + 1 - i]]

\* C16 as stated: for a text and a set of secret values, maskSecrets gives the
\* same result for every order of iteration over the secrets (the maps here
\* hold at most two, so the opposite order is the only other one).
C16_Original ==
  HasResult =>
    \A st \in Streams :
      maskSecrets(Kept(st), Reversed(secrets)) = maskSecrets(Kept(st), secrets)

\* C17: the child's environment maps every secret name to its secret value,
\* also when an ambient variable has that name, and every other ambient
\* variable to its ambient value, and holds nothing else; process.env is, in
\* every state, what it was when injectRun was called.
C17_EnvMerged ==
  /\ ambient = ambientAtCall
  /\ spawns > 0 =>
       /\ DOMAIN spawned.env = DOMAIN ambient \cup SecretNames
       /\ \A i \in 1..Len(secrets) : spawned.env[secrets[i].key] = secrets[i].value
       /\ \A k \in DOMAIN ambient \ SecretNames : spawned.env[k] = ambient[k]

\* C17 witness: a child was spawned with a secret that overrides an ambient
\* variable of its name, a secret no ambient variable has the name of, and
\* an ambient variable passed through.
C17_Witness ==
  /\ spawns > 0
  /\ \E k \in SecretNames \cap DOMAIN ambient : spawned.env[k] # ambient[k]
  /\ SecretNames \ DOMAIN ambient # {}
  /\ DOMAIN ambient \ SecretNames # {}

\* C18: every process is started from the command and an explicit argument
\* vector with the shell disabled: the file is args.command as it is, the
\* arguments are args.args element by element (none when absent), and
\* nothing is joined into a string for a shell.
C18_NoShell ==
  spawns > 0 =>
    /\ spawns = 1
    /\ spawned.shell = FALSE
    /\ spawned.file = command
    /\ spawned.args = IF argv.present THEN argv.list ELSE << >>

\* C18 witness: a child was spawned with an argument holding shell
\* metacharacters ('echo $A; id'), passed as one element of the vector.
C18_Witness ==
  /\ spawns = 1
  /\ Len(spawned.args) = 2
  /\ \E i \in 1..Len(spawned.args[2]) : spawned.args[2][i] = 59
  /\ spawned.shell = FALSE

\* C20: the diff response never contains the full value of a secret of
\* non-zero length of either environment: the previews of a key whose values
\* differ do not contain the values, and the keys listed as same or as only in
\* one environment are keys of the environments, without a value.
C20_Original ==
  (diffPc = "returned" /\ diffOutcome.kind = "result") =>
    LET r == diffOutcome.result
        keys == DOMAIN diffFetch1.secrets \cup DOMAIN diffFetch2.secrets
    IN  /\ \A i \in 1..Len(r.different) :
             LET d == r.different[i]
                 val1 == GetOrEmpty(diffFetch1.secrets, d.key)
                 val2 == GetOrEmpty(diffFetch2.secrets, d.key)
             IN  /\ (d.key \in DOMAIN diffFetch1.secrets /\ Len(val1) > 0) =>
                       ~Includes(d.preview1, val1)
                 /\ (d.key \in DOMAIN diffFetch2.secrets /\ Len(val2) > 0) =>
                       ~Includes(d.preview2, val2)
        /\ \A i \in 1..Len(r.same) : r.same[i] \in keys
        /\ \A i \in 1..Len(r.onlyInEnv1) : r.onlyInEnv1[i] \in keys
        /\ \A i \in 1..Len(r.onlyInEnv2) : r.onlyInEnv2[i] \in keys

\* What the data handlers of one call hold for a stream after the chunks
\* delivered to that call, from the i-th on.
RECURSIVE CapturedFrom(_, _, _, _, _)
CapturedFrom(delivered, stream, i, text, bytes) ==
  IF i > Len(delivered) THEN [text |-> text, bytes |-> bytes]
  ELSE IF delivered[i].stream = stream /\ bytes < MAX_OUTPUT_BYTES
    THEN CapturedFrom(delivered, stream, i + 1,
                      text \o BufferToString(delivered[i].data),
                      bytes + Len(delivered[i].data))
    ELSE CapturedFrom(delivered, stream, i + 1, text, bytes)

Captured(delivered, stream) == CapturedFrom(delivered, stream, 1, << >>, 0)

\* The result of a call from what was delivered to it, the map fetched for
\* it and the way its own child ended.
OwnResult(e) ==
  LET out == Captured(e.delivered, "stdout")
      err == Captured(e.delivered, "stderr")
      stdoutResult == truncateOutput(out.text, MAX_OUTPUT_BYTES)
      stderrResult == truncateOutput(err.text, MAX_OUTPUT_BYTES)
  IN [exitCode |-> IF e.childCode.signal THEN 1 ELSE e.childCode.code,
      stdout |-> maskSecrets(stdoutResult.text, e.pulled),
      stderr |-> maskSecrets(stderrResult.text, e.pulled),
      stdoutTruncated |-> stdoutResult.truncated \/ out.bytes >= MAX_OUTPUT_BYTES,
      stderrTruncated |-> stderrResult.truncated \/ err.bytes >= MAX_OUTPUT_BYTES]

\* The kill calls of a call: SIGTERM when its own timer has fired, SIGKILL
\* when its own inner timer has fired, neither before the timer was due.
OwnKills(e) ==
  /\ Len(e.kills) = (IF e.timer = "fired" THEN 1 ELSE 0)
                    + (IF e.killTimer = "fired" THEN 1 ELSE 0)
  /\ \A k \in 1..Len(e.kills) :
       /\ e.kills[k].signal = (IF k = 1 THEN "SIGTERM" ELSE "SIGKILL")
       /\ e.kills[k].at >= (IF k = 1 THEN e.timerDue ELSE e.killDue)

\* C19: of two concurrent executions, each uses only its own fetched secret
\* map, capture buffers and timer: its environment and its secrets are those
\* fetched for it, its buffers hold the data delivered to it, its signals come
\* from its own timer, and its outcome is the result of its own data, its own
\* child's end and the secrets fetched for it, or the timeout of its own timer.
C19_ExecutionsIndependent ==
  \A i \in Executions :
    LET e == calls[i] IN
    e.child # "none" =>
      /\ e.secrets = e.pulled
      /\ e.env = MergeEnv(ambient, e.pulled)
      /\ e.stdout = Captured(e.delivered, "stdout").text
      /\ e.stdoutBytes = Captured(e.delivered, "stdout").bytes
      /\ e.stderr = Captured(e.delivered, "stderr").text
      /\ e.stderrBytes = Captured(e.delivered, "stderr").bytes
      /\ OwnKills(e)
      /\ e.promise.state = "resolved" => e.promise.value = OwnResult(e)
      /\ (e.promise.state = "rejected" /\ e.promise.error = "Command timed out") =>
           (e.timer = "fired" /\ e.promise.ms = EffectiveTimeout(e.timeoutArg))
      /\ e.pc = "returned" =>
           IF e.promise.state = "resolved"
             THEN /\ e.outcome.kind = "result"
                  /\ e.outcome.response.stdout = OwnResult(e).stdout
                  /\ e.outcome.response.stderr = OwnResult(e).stderr
                  /\ e.outcome.response.exitCode = OwnResult(e).exitCode
                  /\ e.outcome.response.secretsInjected = Len(e.pulled)
             ELSE e.outcome = Thrown(e.promise.error, e.promise.ms)

\* Both calls were spawned at time 0 with different secret maps and got
\* 'abcd zz' on stdout; the first timed out at 1000 ms and was sent SIGTERM;
\* the second was sent no signal and returned the text redacted with its own
\* secret.
C19_Witness ==
  /\ calls[1].pulled # calls[2].pulled
  /\ calls[1].outcome.kind = "thrown" /\ calls[1].outcome.error = "Command timed out"
  /\ calls[1].kills # << >>
  /\ calls[1].delivered # << >>
  /\ calls[1].timerDue = 1000
  /\ calls[2].timerDue = DEFAULT_TIMEOUT_MS
  /\ calls[2].delivered = << [stream |-> "stdout", data |-> ChunkBoth] >>
  /\ calls[2].kills = << >>
  /\ calls[2].outcome.kind = "result"
  /\ calls[2].outcome.response.stdout = maskSecrets(BufferToString(ChunkBoth), calls[2].pulled)
  /\ calls[2].outcome.response.stdout # maskSecrets(BufferToString(ChunkBoth), calls[1].pulled)

\* C28 as stated: the byte length of the returned stdout and of the returned
\* stderr is at most MAX_OUTPUT_BYTES, the truncation notice and the
\* redaction markers counted.
C28_Original ==
  HasResult =>
    \A st \in Streams : ByteLength(Returned(st)) <= MAX_OUTPUT_BYTES

\* The number of code units truncateOutput keeps of a captured stream before
\* the notice.
KeptLen(st) ==
  IF truncateOutput(RawText(st), MAX_OUTPUT_BYTES).truncated
    THEN Len(Kept(st)) - Len(TRUNCATION_MESSAGE)
    ELSE Len(RawText(st))

\* C29 as stated: when the truncation point falls inside an occurrence of a
\* non-empty secret value in the captured output, no fragment of that
\* occurrence remains in the returned text: the part of the occurrence before
\* the cut does not stand before the notice.
C29_Original ==
  HasResult =>
    \A st \in Streams : \A v \in SecretValues :
      \A p \in 1..Len(RawText(st)) :
        (/\ v # << >>
         /\ MatchAt(RawText(st), v, p)
         /\ p <= KeptLen(st)
         /\ KeptLen(st) < p + Len(v) - 1) =>
          ~Includes(Returned(st),
                    SubSeq(RawText(st), p, KeptLen(st)) \o TRUNCATION_MESSAGE)

\* The keys of a list of the diff result, as a set.
ListKeys(list) == { list[i] : i \in 1..Len(list) }

SortedList(list) == \A i \in 1..(Len(list) - 1) : LessKey(list[i], list[i + 1])

\* C23 as stated: every key of the union of the two secret maps is in exactly
\* one of onlyInEnv1, onlyInEnv2, different and same, each list is in sorted
\* key order, and the stats satisfy onlyInEnv1 + different + same = totalEnv1
\* and onlyInEnv2 + different + same = totalEnv2.
C23_Original ==
  (diffPc = "returned" /\ diffOutcome.kind = "result") =>
    LET r == diffOutcome.result
        keys == DOMAIN diffFetch1.secrets \cup DOMAIN diffFetch2.secrets
        differing == [i \in 1..Len(r.different) |-> r.different[i].key]
        lists == << r.onlyInEnv1, r.onlyInEnv2, differing, r.same >>
    IN  /\ \A k \in keys : Cardinality({ n \in 1..4 : k \in ListKeys(lists[n]) }) = 1
        /\ \A n \in 1..4 : SortedList(lists[n]) /\ ListKeys(lists[n]) \subseteq keys
        /\ r.stats.onlyInEnv1 + r.stats.different + r.stats.same = r.stats.totalEnv1
        /\ r.stats.onlyInEnv2 + r.stats.different + r.stats.same = r.stats.totalEnv2
        /\ r.stats.totalEnv1 = Cardinality(DOMAIN diffFetch1.secrets)
        /\ r.stats.totalEnv2 = Cardinality(DOMAIN diffFetch2.secrets)
        /\ \A key \in ListKeys(r.onlyInEnv1) :
             key \in DOMAIN diffFetch1.secrets /\ key \notin DOMAIN diffFetch2.secrets
        /\ \A key \in ListKeys(r.onlyInEnv2) :
             key \notin DOMAIN diffFetch1.secrets /\ key \in DOMAIN diffFetch2.secrets

\* The names validate has to look for: those of args.required, and with
\* autoDetect those found in the code that are no common non-secrets.
RequiredNames ==
  ListKeys(val.args.required)
  \cup (IF val.args.autoDetect THEN val.args.detected \ NonSecrets ELSE {})

\* C24: in a validation result, each required name is in exactly one of
\* present and missing, in present exactly when the vault has the key; valid
\* is true exactly when missing is empty; presentCount + missingCount =
\* requiredCount; a failed fetch counts as an empty vault: every required name
\* is missing and isError is false.  (Without any required name validate
\* returns an error before it fetches.)
C24_ValidatePartitions ==
  IF val.pc = "returned" /\ val.outcome.kind = "result"
    THEN LET r == val.outcome.result
             vaultKeys == DOMAIN val.fetch.secrets
         IN /\ ListKeys(r.required) = RequiredNames
            /\ ListKeys(r.present) = RequiredNames \cap vaultKeys
            /\ ListKeys(r.missing) = RequiredNames \ vaultKeys
            /\ r.valid <=> (r.missing = << >>)
            /\ r.stats.requiredCount = Len(r.required)
            /\ r.stats.presentCount = Len(r.present)
            /\ r.stats.missingCount = Len(r.missing)
            /\ r.stats.presentCount + r.stats.missingCount = r.stats.requiredCount
            /\ ~val.outcome.isError
            /\ val.fetch.state = "failed" =>
                 (r.present = << >> /\ ListKeys(r.missing) = RequiredNames /\ ~r.valid)
    ELSE val.pc = "returned" =>
           (val.outcome.isError /\ val.fetch.state = "none")

\* A result for a list that names a secret twice, with a name present and
\* another missing.
C24_Witness ==
  /\ val.pc = "returned" /\ val.outcome.kind = "result"
  /\ val.fetch.state = "ok"
  /\ val.outcome.result.present # << >>
  /\ val.outcome.result.missing # << >>
  /\ Len(val.outcome.result.required) > Cardinality(RequiredNames)


\* C22: pullSecrets, pushSecrets and getSecretValue reject an environment name
\* that is empty or does not match ^[a-zA-Z][a-zA-Z0-9_-]*$ with an 'Invalid
\* environment' APIError of status 400 before any request is made; a valid
\* name proceeds to the request.
NameLetters == (65..90) \cup (97..122)

NameRest == NameLetters \cup (48..57) \cup {95, 45}

ValidEnvironmentName(name) ==
  /\ name # << >>
  /\ Head(name) \in NameLetters
  /\ \A i \in DOMAIN Tail(name) : Tail(name)[i] \in NameRest

C22_EnvironmentCheckedFirst ==
  IF ValidEnvironmentName(req.environment)
    THEN req.pc # "start" => req.requests >= 1
    ELSE /\ req.requests = 0
         /\ req.attempts = << >>
         /\ req.pc \in {"start", "done"}
         /\ req.pc = "done" =>
              /\ req.outcome.kind = "thrown"
              /\ req.outcome.error.name = "APIError"
              /\ req.outcome.error.statusCode = 400
              /\ req.outcome.error.errorCode = "INVALID_ENVIRONMENT"
              /\ MatchAt(req.outcome.error.message, InvalidEnvironmentText, 1)

C22_Witness ==
  /\ req.pc = "done"
  /\ req.fn = "pushSecrets"
  /\ Len(req.environment) = 4
  /\ ~ValidEnvironmentName(req.environment)
  /\ req.outcome.error.statusCode = 400
  /\ req.requests = 0

\* C25 (as stated): a request that got an HTTP 5xx response is attempted again,
\* up to the limit of 3 attempts, before the APIError is reported.
C25_Original ==
  (req.pc = "done" /\ req.response.status >= 500 /\ req.response.status < 600)
    => req.requests = MAX_RETRIES

\* C26: fetchWithRetry makes at most 3 attempts and always ends; it attempts
\* again only after a retryable error (network, connection reset or refused,
\* timeout), after a sleep of 1000 * 2^k ms that follows the failed attempt k
\* (k = 0, 1: 1 s, then 2 s); it rethrows the error at once when the error is
\* not retryable or the third attempt failed, without a further sleep.
RetryableErrors == { ErrTimeout, ErrNetwork, ErrReset, ErrRefused }

Failed(k) == req.attempts[k].error # NoError

C26_Attempts ==
  /\ req.requests <= MAX_RETRIES
  /\ Len(req.attempts) <= req.requests
  /\ Len(req.sleeps) <= MAX_RETRIES - 1
  /\ \A k \in DOMAIN req.sleeps :
       /\ req.sleeps[k] = RETRY_DELAY_MS * Pow2(k - 1)
       /\ k \in DOMAIN req.attempts
       /\ req.attempts[k].error \in RetryableErrors
  /\ req.requests >= 1 =>
       req.requests = Len(req.sleeps) + (IF req.pc = "sleeping" THEN 0 ELSE 1)
  /\ \A k \in DOMAIN req.attempts :
       (Failed(k) /\ (req.attempts[k].error \notin RetryableErrors \/ k = MAX_RETRIES))
         => /\ req.pc = "done"
            /\ k = Len(req.attempts)
            /\ req.outcome = [kind |-> "thrown", error |-> req.attempts[k].error]
            /\ Len(req.sleeps) = k - 1

Usable(login) ==
  /\ login.entry = "present"
  /\ login.keyFile = "ok"
  /\ login.parts = 3
  /\ login.decrypts
  /\ login.json = "object"

DenotesTime(e) == e.present /\ \E t \in 1..3 : e.text = IsoPrefix \o << 48 + t, 90 >>

TimeDenoted(e) == CHOOSE t \in 1..3 : e.text = IsoPrefix \o << 48 + t, 90 >>

C21_Original ==
  (gen.pc = "done" /\ ~gen.outcome.isError)
    => ~Includes(gen.outcome.text, gen.secretValue)

\* C30 (as stated): when set_secret stores another key between generate's pull
\* and its push, that key still has set_secret's value after generate has
\* completed.
C30_Original ==
  (/\ gen.pc = "done" /\ ~gen.outcome.isError
   /\ setter.outcome = "stored" /\ setter.during = "push"
   /\ setter.args.name # gen.args.name)
    => /\ setter.args.name \in DOMAIN vault
       /\ vault[setter.args.name] = setter.args.value

====
